---- MODULE Spec2Model ----
(***************************************************************************)
(* Offline-first content synchronisation of ERP Field Map.                 *)
(*                                                                         *)
(* The module models services/sync (fetchManifest, checkSyncNeeded,        *)
(* syncLayer, syncLayers, performFullSync) running against services/db     *)
(* (the IndexedDB object stores manifest, layers, basemap).                *)
(*                                                                         *)
(* One performFullSync call is a small process: every `await` of the code  *)
(* is a separate step, so the page can be closed between any two of them.  *)
(* Network requests and store operations may fail at every step; the       *)
(* progress callback handed to performFullSync may throw.                  *)
(*                                                                         *)
(* On top of it: the status store (useSyncStore), and the hook useSync as  *)
(* the mounted components run it: initialize(), sync() with its callers    *)
(* (mount timers, online/offline events, the sync button), and             *)
(* downloadOfflineBasemap with downloadBasemap and the download prompt,     *)
(* toggleLayerVisibility of the layer panel and saveSettings of the        *)
(* settings store (each a read and a write in separate transactions),      *)
(* layers uploaded by the user, malformed manifest bodies, the unmount of  *)
(* the download prompt and page reloads between sessions.                  *)
(***************************************************************************)
EXTENDS Integers, Sequences, FiniteSets, Bags, TLC

(***************************************************************************)
(* Bounds of the model.                                                    *)
(***************************************************************************)
\* number of performFullSync calls in one behaviour (also the clock range,
\* and the number of sessions of the application)
MaxRuns == 3
\* number of sync() calls that can be in flight at once
MaxSyncs == 2
\* number of chunks a basemap response body delivers
MaxChunks == 2
\* number of times the user changes the follow mode
MaxSaves == 1

(***************************************************************************)
(* Values.                                                                 *)
(***************************************************************************)
\* an absent optional (`undefined`): used for sha256 and for result.error
Undefined == "undefined"

\* Optionals that hold records are sequences of length 0 or 1.
Absent == <<>>
Some(x) == <<x>>

LayerIds == {"roads", "zones"}
\* the id handleFileUpload gives an uploaded layer: `user-${baseName}-${Date.now()}`
UserLayerId == "user-track-1"
\* IndexedDB returns getAll() in key order
KeyOrder == <<"roads", UserLayerId, "zones">>
Hashes == {"h1", "h2"}
OptHashes == Hashes \cup {Undefined}
Versions == {"v1", "v2"}
BasemapIds == {"bm1", "bm2"}

\* import.meta.env.VITE_CONTENT_BASE_URL || ''
BaseUrls == {"", "https://content.example"}

\* LayerConfig (types): id, type, name, url, sha256?, defaultVisible
LayerConfig(id, sha) ==
  [id |-> id, type |-> "kml", name |-> id, url |-> id,
   sha256 |-> sha, defaultVisible |-> TRUE]

\* BasemapConfig (types): id, type, url, sha256?
BasemapConfig(id, sha) ==
  [id |-> id, type |-> "pmtiles", url |-> id, sha256 |-> sha]

\* ContentManifest (types): version, basemap, layers
ContentManifest(v, bm, ls) == [version |-> v, basemap |-> bm, layers |-> ls]

\* layer lists with pairwise distinct ids (the manifest invariant), length 0..2
LayerLists ==
  {<<>>}
  \cup {<<LayerConfig(a, h)>> : a \in LayerIds, h \in OptHashes}
  \cup {<<LayerConfig(ab[1], hs[1]), LayerConfig(ab[2], hs[2])>> :
          ab \in {x \in LayerIds \X LayerIds : x[1] # x[2]},
          hs \in OptHashes \X OptHashes}

\* every manifest of the bounded universe (inputs of the diff)
Manifests ==
  {ContentManifest(v, BasemapConfig(b, bh), ls) :
     v \in Versions, b \in BasemapIds, bh \in OptHashes, ls \in LayerLists}

\* the manifests the content server publishes in the sync runs: a layer
\* without a hash, the same layer with a hash, a change of the version alone,
\* and a change of the hash alone
ServerManifests ==
  {ContentManifest(vh[1], BasemapConfig("bm1", Undefined),
                   <<LayerConfig("roads", vh[2]), LayerConfig("zones", "h1")>>) :
     vh \in {<<"v1", Undefined>>, <<"v1", "h1">>, <<"v2", "h1">>, <<"v2", "h2">>}}

(***************************************************************************)
(* Persistent store (services/db).                                         *)
(***************************************************************************)
\* StoredManifest built by performFullSync before saveManifest
StoredManifest(m, t) ==
  [id |-> "current", version |-> m.version, fetchedAt |-> t, rawJson |-> m]

\* a StoredLayer object that does not record the declared hash
StoredLayer_noHash(layer, geojson, t) ==
  [id |-> layer.id, version |-> t, name |-> layer.name, geojson |-> geojson,
   sha256 |-> Undefined, storedAt |-> t, visible |-> layer.defaultVisible]

\* the StoredLayer object built by syncLayer: hash and visibility of the config
StoredLayer(layer, geojson, t) ==
  [id |-> layer.id, version |-> t, name |-> layer.name, geojson |-> geojson,
   sha256 |-> layer.sha256, storedAt |-> t, visible |-> layer.defaultVisible]

\* the StoredLayer object built by handleFileUpload: no sha256
UploadedLayer(id, geojson, t) ==
  [id |-> id, version |-> t, name |-> id, geojson |-> geojson,
   sha256 |-> Undefined, storedAt |-> t, visible |-> TRUE]

\* a put that replaces the content of the object store
saveLayer_replacesStore(layers, rec) == [k \in {rec.id} |-> rec]

\* db.put('layers', layer): one record per key, replaced wholesale
saveLayer(layers, rec) ==
  [k \in DOMAIN layers \cup {rec.id} |-> IF k = rec.id THEN rec ELSE layers[k]]

\* db.getAll('layers'): the records in key order
getAllLayers(layers) ==
  LET present == SelectSeq(KeyOrder, LAMBDA k : k \in DOMAIN layers)
  IN  [n \in 1..Len(present) |-> layers[present[n]]]

\* db.get('basemap', id)
getStoredBasemap(basemaps, id) ==
  IF id \in DOMAIN basemaps THEN Some(basemaps[id]) ELSE Absent

(***************************************************************************)
(* checkSyncNeeded: the manifest diff.                                     *)
(***************************************************************************)
\* JavaScript truthiness of an optional hash: `undefined` (and '') is falsy
Truthy(h) == h # Undefined

\* new Map(storedLayers.map((l) => [l.id, l])): a later entry wins
storedLayerMap(storedLayers) ==
  [k \in {storedLayers[n].id : n \in 1..Len(storedLayers)} |->
     storedLayers[CHOOSE n \in 1..Len(storedLayers) :
                    /\ storedLayers[n].id = k
                    /\ \A j \in n+1..Len(storedLayers) : storedLayers[j].id # k]]

\* the filter callback without the `layer.sha256 &&` guard
layerChanged_noGuard(layer, layerMap) ==
  IF layer.id \notin DOMAIN layerMap THEN TRUE
  ELSE layerMap[layer.id].sha256 # layer.sha256

\* a filter callback that keeps every layer of the manifest
layerChanged_always(layer, layerMap) == TRUE

\* the filter callback without the hash comparison: only missing layers change
layerChanged_missingOnly(layer, layerMap) ==
  layer.id \notin DOMAIN layerMap

\* the filter callback of changedLayers
layerChanged(layer, layerMap) ==
  IF layer.id \notin DOMAIN layerMap THEN TRUE
  ELSE IF Truthy(layer.sha256) /\ layerMap[layer.id].sha256 # layer.sha256 THEN TRUE
  ELSE FALSE

\* basemapChanged, from the stored basemap of the manifest's basemap id
basemapChangedOf(newManifest, storedBasemap) ==
  \/ storedBasemap = Absent
  \/ /\ Truthy(newManifest.basemap.sha256)
     /\ storedBasemap[1].sha256 # newManifest.basemap.sha256

\* the diff with a version change marking every layer as changed
checkSyncNeeded_versionResync(newManifest, stored, storedLayers, basemaps) ==
  IF stored = Absent
  THEN [needsSync |-> TRUE,
        changedLayers |-> newManifest.layers,
        basemapChanged |-> TRUE]
  ELSE LET versionChanged == stored[1].version # newManifest.version
           layerMap == storedLayerMap(storedLayers)
           changedLayers ==
             SelectSeq(newManifest.layers,
                       LAMBDA l : versionChanged \/ layerChanged(l, layerMap))
           storedBasemap == getStoredBasemap(basemaps, newManifest.basemap.id)
       IN  [needsSync |-> versionChanged \/ Len(changedLayers) > 0,
            changedLayers |-> changedLayers,
            basemapChanged |-> basemapChangedOf(newManifest, storedBasemap)]

\* stored: the optional StoredManifest; storedLayers: getAllLayers();
\* basemaps: the basemap object store
checkSyncNeeded(newManifest, stored, storedLayers, basemaps) ==
  IF stored = Absent
  THEN [needsSync |-> TRUE,
        changedLayers |-> newManifest.layers,
        basemapChanged |-> TRUE]
  ELSE LET versionChanged == stored[1].version # newManifest.version
           layerMap == storedLayerMap(storedLayers)
           changedLayers ==
             SelectSeq(newManifest.layers, LAMBDA l : layerChanged(l, layerMap))
           storedBasemap == getStoredBasemap(basemaps, newManifest.basemap.id)
       IN  [needsSync |-> versionChanged \/ Len(changedLayers) > 0,
            changedLayers |-> changedLayers,
            basemapChanged |-> basemapChangedOf(newManifest, storedBasemap)]

(***************************************************************************)
(* Failures of the environment.                                            *)
(***************************************************************************)
\* what an awaited call or a callback does: return, or throw a value
Returns == [threw |-> FALSE, isError |-> FALSE, message |-> Undefined]
Throws(isErr, msg) == [threw |-> TRUE, isError |-> isErr, message |-> msg]

\* an IndexedDB request resolves, or rejects with a DOMException (an Error)
StoreOutcomes == {Returns, Throws(TRUE, "QuotaExceededError")}

\* the optional onProgress callback returns, or throws an Error or another value
CallbackOutcomes == {Returns, Throws(TRUE, "callback failed"), Throws(FALSE, Undefined)}

\* fetch(manifest.json): a 2xx JSON body, a rejection or timeout abort,
\* a non-2xx status, or a body response.json() cannot parse
ManifestResponses == {"ok", "rejected", "non2xx", "badjson"}

\* fetchAndParseKML: a parsed document, a rejected fetch, a non-2xx status,
\* or a document that parseKML rejects
LayerResponses == {"ok", "rejected", "non2xx", "parseerror"}

(***************************************************************************)
(* Results of performFullSync.                                             *)
(***************************************************************************)
Pending ==
  [settled |-> "pending", success |-> FALSE, layersSynced |-> 0, error |-> Undefined]

\* return { success: true, layersSynced: n }
Success(n) ==
  [settled |-> "fulfilled", success |-> TRUE, layersSynced |-> n, error |-> Undefined]

\* return { success: false, layersSynced: 0, error }
Failure(msg) ==
  [settled |-> "fulfilled", success |-> FALSE, layersSynced |-> 0, error |-> msg]

\* a catch block that rethrows: the promise of performFullSync rejects
catchResult_rethrows(e) ==
  [settled |-> "rejected", success |-> FALSE, layersSynced |-> 0, error |-> Undefined]

\* the catch block of performFullSync
catchResult(e) ==
  Failure(IF e.isError THEN e.message ELSE "Unknown error")

\* a 2xx body that is JSON but not a ContentManifest: the object without its
\* layers, or without its basemap
MalformedResponses == {"badjson", "nolayers", "nobasemap"}

\* what response.json() resolves to: the object the body describes
json(response, body) ==
  IF response = "nolayers" THEN [k \in DOMAIN body \ {"layers"} |-> body[k]]
  ELSE IF response = "nobasemap" THEN [k \in DOMAIN body \ {"basemap"} |-> body[k]]
  ELSE body

\* fetchManifest(): null without a base URL, else the parsed body, or null on
\* any failure; the parsed body is returned as it is
fetchManifest(url, response, body) ==
  IF url = "" THEN Absent
  ELSE IF response \in {"ok", "nolayers", "nobasemap"}
       THEN Some(json(response, body))
       ELSE Absent

\* reading a property of undefined: the TypeError of checkSyncNeeded
\* (newManifest.layers.filter, newManifest.basemap.id) or, when nothing is
\* stored, of the first use of changedLayers
typeError(newManifest, stored) ==
  IF stored = Absent
  THEN "layers" \notin DOMAIN newManifest
  ELSE "layers" \notin DOMAIN newManifest \/ "basemap" \notin DOMAIN newManifest

\* the null-manifest branch without the look at the stored manifest
manifestUnavailable_alwaysFails(stored) ==
  Failure("Content server unavailable")

\* the branch taken when fetchManifest() returned null
manifestUnavailable(stored) ==
  IF stored # Absent THEN Success(0) ELSE Failure("Content server unavailable")

\* a base URL test that never takes the early return
noServer_never(url) == FALSE

\* `!baseUrl`: no content server is configured
noServer(url) == url = ""

\* a loop that ends one layer early
afterLayer_skipsLast(k, n) == IF k + 1 >= n THEN "saveManifest" ELSE "fetchLayer"

\* the for loop of syncLayers after the layer at (1-based) position k of n
afterLayer(k, n) == IF k + 1 > n THEN "saveManifest" ELSE "fetchLayer"

\* the progress report with the 0-based index itself
progressArgs_zeroBased(i0, n) == [completed |-> i0, total |-> n]

\* onProgress?.(i + 1, layers.length) with the 0-based loop index i
progressArgs(i0, n) == [completed |-> i0 + 1, total |-> n]

(***************************************************************************)
(* The sync status store (useSyncStore).  A status is the record            *)
(* { state, lastSync, message?, progress? }; null and a missing key are    *)
(* both Absent, a present value v is Some(v).                               *)
(***************************************************************************)
\* a message: a template text and the (at most two) numbers it embeds
Msg(text, a, b) == <<text, a, b>>
Text(text) == Msg(text, 0, 0)

SyncStates == {"synced", "syncing", "stale", "offline", "error"}
StatusKeys == {"state", "lastSync", "message", "progress"}

\* the status the store is created with
InitialStatus ==
  [state |-> "offline", lastSync |-> Absent, message |-> Absent, progress |-> Absent]

\* setStatus(statusUpdate): { ...state.status, ...statusUpdate }
setStatus(s, statusUpdate) ==
  [k \in StatusKeys |-> IF k \in DOMAIN statusUpdate THEN statusUpdate[k] ELSE s[k]]

\* startSync(): the status is replaced
startSync ==
  [state |-> "syncing", lastSync |-> Absent, message |-> Some(Text("Syncing...")),
   progress |-> Absent]

\* a completion that writes the message and leaves the state at syncing
syncComplete_keepsSyncing(success, message, t) ==
  [state |-> "syncing", lastSync |-> Absent, message |-> message, progress |-> Absent]

\* a completion that reports failure as synced
syncComplete_alwaysSynced(success, message, t) ==
  [state |-> "synced", lastSync |-> IF success THEN Some(t) ELSE Absent,
   message |-> message, progress |-> Absent]

\* syncComplete(success, message) at time t: the status is replaced
syncComplete(success, message, t) ==
  [state |-> IF success THEN "synced" ELSE "stale",
   lastSync |-> IF success THEN Some(t) ELSE Absent,
   message |-> message, progress |-> Absent]

\* syncError(message): the status is replaced
syncError(message) ==
  [state |-> "error", lastSync |-> Absent, message |-> Some(Text(message)),
   progress |-> Absent]

\* an offline transition that replaces the status
setOffline_replaces(s) ==
  [state |-> "offline", lastSync |-> Absent, message |-> Some(Text("Working offline")),
   progress |-> Absent]

\* setOffline(): { ...state.status, state: 'offline', message: 'Working offline' }
setOffline(s) ==
  [s EXCEPT !.state = "offline", !.message = Some(Text("Working offline"))]

\* a completion message
syncedMessage(n) == Msg("Synced %1 layers", n, 0)

\* 20 + (completed / total) * 70; the quotient is exact for the totals used
layerProgress(completed, total) == 20 + (completed * 70) \div total

\* the reports performFullSync makes through onProgress(message, progress)
ReportNoServer == [message |-> Text("No content server configured"), progress |-> 100]
ReportFetching == [message |-> Text("Fetching manifest..."), progress |-> 0]
ReportUpToDate == [message |-> Text("Already up to date"), progress |-> 100]
ReportSyncing(n) == [message |-> Msg("Syncing %1 layers...", n, 0), progress |-> 20]
ReportLayer(p) ==
  [message |-> Msg("Syncing layer %1/%2", p.completed, p.total),
   progress |-> layerProgress(p.completed, p.total)]
ReportComplete == [message |-> Text("Sync complete"), progress |-> 100]

\* the callback sync() passes: setStatus({ message, progress })
reportUpdate(r) == [message |-> Some(r.message), progress |-> Some(r.progress)]

\* the updates initialize() passes to setStatus
cachedUpdate == [state |-> "stale", message |-> Some(Text("Using cached data"))]
fallbackUpdate(t) ==
  [state |-> "synced", lastSync |-> Some(t),
   message |-> Some(Text("Using online satellite tiles"))]

(***************************************************************************)
(* State.                                                                  *)
(***************************************************************************)
VARIABLES
  \* the IndexedDB object stores
  dbManifest,     \* store 'manifest', key 'current': Absent or Some(StoredManifest)
  dbLayers,       \* store 'layers': layer id -> StoredLayer
  dbBasemap,      \* store 'basemap': basemap id -> StoredBasemap
  \* the environment
  baseUrl,        \* VITE_CONTENT_BASE_URL
  srvManifest,    \* the manifest.json the content server serves
  now,            \* the clock read by new Date(); it advances with every run
  \* one call of performFullSync
  pc,             \* where the call is suspended
  manifest,       \* const manifest = await fetchManifest()
  check,          \* what checkSyncNeeded(manifest) returned
  i,              \* the loop position of syncLayers (1-based)
  results,        \* const results: StoredLayer[] of syncLayers
  geojson,        \* the decoded layer awaiting saveLayer
  result,         \* the value the call resolved to
  \* history
  log,            \* what the current call did, in order
  attempted,      \* layer ids for which a syncLayer call was ever started
  startManifest,  \* dbManifest when the current call started (between calls: now)
  startLayers,    \* dbLayers when the current call started (between calls: now)
  prev,           \* summary of the previous call
  \* the application (the stores in memory and the hook useSync)
  status,         \* useSyncStore: status
  storeManifest,  \* useSyncStore: manifest (the published manifest)
  downloadProgress,   \* useSyncStore: downloadProgress
  showDownloadPrompt, \* useSyncStore: showDownloadPrompt
  mapLayers,      \* useMapStore: layers (id -> { geojson, visible, name })
  hasOfflineBasemap,  \* useMapStore: hasOfflineBasemap
  basemapBlob,    \* useMapStore: basemapBlob
  dbSettings,     \* store 'settings', key 'user': Absent or Some(StoredSettings)
  satelliteUrl,   \* VITE_ONLINE_SATELLITE_URL
  online,         \* navigator.onLine
  hooks,          \* the mounted instances of useSync: component -> its state
  calls,          \* the sync() calls in flight: a bag of positions and locals
  dl,             \* the downloadOfflineBasemap call of the download prompt
  promptError,    \* DownloadPrompt: const [error, setError] = useState(null)
  toggle,         \* the toggleLayerVisibility call of the layer panel
  saving,         \* the saveCurrentSettings call of the settings store
  \* history
  lastOp,         \* the last operation applied to the status
  dlEvents,       \* the progress events of the current downloadBasemap call
  hist            \* counters of what initialize() did

statusVars == <<status, lastOp>>
shortVars == <<toggle, saving>>
uiVars ==
  <<storeManifest, downloadProgress, showDownloadPrompt, mapLayers,
    hasOfflineBasemap, basemapBlob, promptError>>
procVars == <<hooks, calls, dl, dlEvents, hist, shortVars>>
appVars == <<statusVars, uiVars, procVars, dbSettings, satelliteUrl, online>>

vars ==
  <<dbManifest, dbLayers, dbBasemap, baseUrl, srvManifest, now,
    pc, manifest, check, i, results, geojson, result,
    log, attempted, startManifest, startLayers, prev, appVars>>

storeVars == <<dbManifest, dbLayers, dbBasemap>>
envVars == <<baseUrl, srvManifest>>

\* an entry of the history of a call
Ev(op, id, a, b) == [op |-> op, id |-> id, a |-> a, b |-> b]
EvFetchManifest == Ev("fetchManifest", "", 0, 0)
EvFetchLayer(id) == Ev("fetchLayer", id, 0, 0)
EvSaveLayer(id) == Ev("saveLayer", id, 0, 0)
EvLayerFailed(id) == Ev("layerFailed", id, 0, 0)
EvProgress(p) == Ev("progress", "", p.completed, p.total)
EvSaveManifest == Ev("saveManifest", "", 0, 0)
EvStoreThrew == Ev("storeThrew", "", 0, 0)
EvCallbackThrew == Ev("callbackThrew", "", 0, 0)

NoCheck == [needsSync |-> FALSE, changedLayers |-> <<>>, basemapChanged |-> FALSE]

NoPrev ==
  [kind |-> "none", manifest |-> Absent, success |-> FALSE, faulted |-> FALSE,
   selected |-> {}, stored |-> {}]

\* positions of the history with the given operation
At(op) == {n \in DOMAIN log : log[n].op = op}
\* layer ids the current call has fetched, saved
FetchedNow == {log[n].id : n \in At("fetchLayer")}
SavedNow == {log[n].id : n \in At("saveLayer")}
Faulted == At("storeThrew") \cup At("callbackThrew") # {}
Ids(layers) == {layers[n].id : n \in DOMAIN layers}

Summary(kind) ==
  [kind |-> kind, manifest |-> manifest, success |-> result.success,
   faulted |-> Faulted, selected |-> Ids(check.changedLayers), stored |-> SavedNow]

\* the components that mount useSync in the model (App and DownloadPrompt;
\* SyncStatus, LayerPanel and MarkerPanel mount further instances)
Hooks == {"App", "DownloadPrompt"}

\* an instance of useSync before its effects ran: isInitializedRef, the
\* 1000 ms timer of the mount effect, where initialize() is suspended and the
\* locals it keeps across its awaits
NewHook ==
  [isInitialized |-> FALSE, timer |-> "none", init |-> "none",
   hasLayers |-> FALSE, hasBasemap |-> FALSE, lastBasemapId |-> Undefined]

\* a sync() call as it starts: where it is suspended, the locals of its
\* performFullSync, and whether downloadOfflineBasemap awaits it
NewCall ==
  [pc |-> "new", manifest |-> Absent, check |-> NoCheck, i |-> 1,
   result |-> Pending, awaited |-> FALSE]

\* no downloadOfflineBasemap call in flight; the locals of downloadBasemap
\* (total, loaded, the chunks and their number), and history: how the last
\* call ended, at which await it threw, what the sync() it awaited had fetched
NoDownload ==
  [pc |-> "idle", config |-> Absent, total |-> 0, loaded |-> 0, chunks |-> <<>>,
   nchunks |-> 0, existing |-> Absent, last |-> "none", at |-> "none",
   synced |-> Absent]

\* how often initialize() read the store and published what it read, and the
\* basemap and settings stores when the current downloadBasemap call began
NoHist ==
  [loads |-> 0, publishes |-> 0, basemapAtStart |-> <<>>, settingsAtStart |-> Absent]

\* no toggleLayerVisibility call in flight; how the last one ended
NoToggle ==
  [pc |-> "idle", id |-> "", visible |-> FALSE, layer |-> Absent, last |-> "none"]

\* no saveCurrentSettings call in flight; the last patch, how its call
\* ended, and the number of calls so far
NoSave ==
  [pc |-> "idle", patch |-> <<>>, existing |-> Absent, last |-> "none", n |-> 0]

\* the application's memory when the page is loaded
AppCreated ==
  /\ status = InitialStatus
  /\ storeManifest = Absent
  /\ downloadProgress = Absent
  /\ showDownloadPrompt = FALSE
  /\ mapLayers = <<>>
  /\ hasOfflineBasemap = FALSE
  /\ basemapBlob = Absent
  /\ promptError = Absent
  /\ hooks = [h \in Hooks |-> NewHook]
  /\ calls = EmptyBag
  /\ dl = NoDownload
  /\ dlEvents = <<>>
  /\ hist = NoHist
  /\ toggle = NoToggle
  /\ saving = NoSave
  /\ lastOp = "create"

\* an installation without settings or fallback tiles, the browser online
EnvDefault ==
  /\ dbSettings = Absent
  /\ satelliteUrl = ""
  /\ online = TRUE

Init ==
  /\ dbManifest = Absent
  /\ dbLayers = <<>>
  /\ dbBasemap = <<>>
  /\ baseUrl \in BaseUrls
  /\ srvManifest \in ServerManifests
  /\ now = 0
  /\ pc = "idle"
  /\ manifest = Absent
  /\ check = NoCheck
  /\ i = 1
  /\ results = <<>>
  /\ geojson = Absent
  /\ result = Pending
  /\ log = <<>>
  /\ attempted = {}
  /\ startManifest = Absent
  /\ startLayers = <<>>
  /\ prev = NoPrev
  /\ AppCreated
  /\ EnvDefault

(***************************************************************************)
(* performFullSync, one step per await.                                    *)
(***************************************************************************)
\* the call resolves to res after doing evs
Finish(res, evs) ==
  /\ pc' = "done"
  /\ result' = res
  /\ log' = log \o evs

\* what onProgress?.(...) adds to the history
Called(cb) == IF cb.threw THEN <<EvCallbackThrew>> ELSE <<>>

\* performFullSync is called: the base URL test and the first progress report
StartSync ==
  /\ pc = "idle"
  /\ now < MaxRuns
  /\ now' = now + 1
  /\ startManifest' = dbManifest
  /\ startLayers' = dbLayers
  /\ \E cb \in CallbackOutcomes :
       IF noServer(baseUrl)
       THEN \* onProgress?.('No content server configured', 100); return
            /\ pc' = "done"
            /\ result' = IF cb.threw THEN catchResult(cb) ELSE Success(0)
            /\ log' = Called(cb)
       ELSE \* onProgress?.('Fetching manifest...', 0)
            IF cb.threw
            THEN /\ pc' = "done"
                 /\ result' = catchResult(cb)
                 /\ log' = Called(cb)
            ELSE /\ pc' = "fetchManifest"
                 /\ result' = Pending
                 /\ log' = <<>>
  /\ manifest' = Absent
  /\ check' = NoCheck
  /\ i' = 1
  /\ results' = <<>>
  /\ geojson' = Absent
  /\ UNCHANGED <<storeVars, envVars, appVars, attempted, prev>>

\* const manifest = await fetchManifest()
FetchManifest ==
  /\ pc = "fetchManifest"
  /\ \E response \in ManifestResponses :
       /\ manifest' = fetchManifest(baseUrl, response, srvManifest)
       /\ pc' = IF manifest' = Absent THEN "getStored" ELSE "check"
  /\ log' = Append(log, EvFetchManifest)
  /\ UNCHANGED <<storeVars, envVars, appVars, now, check, i, results, geojson, result,
                 attempted, startManifest, startLayers, prev>>

\* const manifest = await fetchManifest(), the server answering 200 with a
\* body that is not a manifest
FetchMalformed ==
  /\ pc = "fetchManifest"
  /\ \E response \in MalformedResponses :
       /\ manifest' = fetchManifest(baseUrl, response, srvManifest)
       /\ pc' = IF manifest' = Absent THEN "getStored" ELSE "check"
       /\ log' = Append(log, Ev("fetchManifest", response, 0, 0))
  /\ UNCHANGED <<storeVars, envVars, appVars, now, check, i, results, geojson, result,
                 attempted, startManifest, startLayers, prev>>

\* the manifest is unavailable: const stored = await getStoredManifest()
GetStored ==
  /\ pc = "getStored"
  /\ \E st \in StoreOutcomes :
       IF st.threw
       THEN Finish(catchResult(st), <<EvStoreThrew>>)
       ELSE Finish(manifestUnavailable(dbManifest), <<>>)
  /\ UNCHANGED <<storeVars, envVars, appVars, now, manifest, check, i, results, geojson,
                 attempted, startManifest, startLayers, prev>>

\* await checkSyncNeeded(manifest), the needsSync test and the progress report
CheckSync ==
  /\ pc = "check"
  /\ \E st \in StoreOutcomes, cb \in CallbackOutcomes :
       IF st.threw
       THEN /\ Finish(catchResult(st), <<EvStoreThrew>>)
            /\ UNCHANGED <<check, i>>
       ELSE IF typeError(manifest[1], dbManifest)
       THEN /\ Finish(catchResult(Throws(TRUE, "TypeError")), <<>>)
            /\ UNCHANGED <<check, i>>
       ELSE LET c == checkSyncNeeded(manifest[1], dbManifest,
                                     getAllLayers(dbLayers), dbBasemap)
            IN  /\ check' = c
                /\ i' = 1
                /\ IF cb.threw
                   THEN Finish(catchResult(cb), <<EvCallbackThrew>>)
                   ELSE IF ~c.needsSync
                   THEN Finish(Success(0), <<>>)
                   ELSE /\ pc' = afterLayer(0, Len(c.changedLayers))
                        /\ UNCHANGED <<result, log>>
  /\ UNCHANGED <<storeVars, envVars, appVars, now, manifest, results, geojson,
                 attempted, startManifest, startLayers, prev>>

\* the end of one iteration of syncLayers: the progress callback, then the
\* next layer; an exception of the callback leaves syncLayers and is caught
\* by performFullSync
LayerDone(evs, cb) ==
  LET n == Len(check.changedLayers)
      called == evs \o <<EvProgress(progressArgs(i - 1, n))>>
  IN  IF cb.threw
      THEN /\ Finish(catchResult(cb), called \o <<EvCallbackThrew>>)
           /\ UNCHANGED i
      ELSE /\ pc' = afterLayer(i, n)
           /\ i' = i + 1
           /\ log' = log \o called
           /\ UNCHANGED result

\* syncLayer: const geojson = await fetchAndParseKML(url)
FetchLayer ==
  /\ pc = "fetchLayer"
  /\ LET layer == check.changedLayers[i]
     IN  /\ attempted' = attempted \cup {layer.id}
         /\ \E response \in LayerResponses, cb \in CallbackOutcomes :
              IF response = "ok"
              THEN /\ geojson' = Some(layer.url)
                   /\ pc' = "saveLayer"
                   /\ log' = Append(log, EvFetchLayer(layer.id))
                   /\ UNCHANGED <<i, result>>
              ELSE /\ geojson' = Absent
                   /\ LayerDone(<<EvFetchLayer(layer.id), EvLayerFailed(layer.id)>>, cb)
  /\ UNCHANGED <<storeVars, envVars, appVars, now, manifest, check, results,
                 startManifest, startLayers, prev>>

\* syncLayer: await saveLayer(storedLayer); results.push(synced)
SaveLayer ==
  /\ pc = "saveLayer"
  /\ LET layer == check.changedLayers[i]
         storedLayer == StoredLayer(layer, geojson[1], now)
     IN  \E st \in StoreOutcomes, cb \in CallbackOutcomes :
           IF st.threw
           THEN /\ UNCHANGED <<dbLayers, results>>
                /\ LayerDone(<<EvStoreThrew, EvLayerFailed(layer.id)>>, cb)
           ELSE /\ dbLayers' = saveLayer(dbLayers, storedLayer)
                /\ results' = Append(results, storedLayer)
                /\ LayerDone(<<EvSaveLayer(layer.id)>>, cb)
  /\ geojson' = Absent
  /\ UNCHANGED <<dbManifest, dbBasemap, envVars, appVars, now, manifest, check,
                 attempted, startManifest, startLayers, prev>>

\* await saveManifest(...), the last progress report and the return
SaveManifest ==
  /\ pc = "saveManifest"
  /\ \E st \in StoreOutcomes, cb \in CallbackOutcomes :
       IF st.threw
       THEN /\ UNCHANGED dbManifest
            /\ Finish(catchResult(st), <<EvStoreThrew>>)
       ELSE /\ dbManifest' = Some(StoredManifest(manifest[1], now))
            /\ Finish(IF cb.threw THEN catchResult(cb)
                      ELSE Success(Len(check.changedLayers)),
                      <<EvSaveManifest>> \o Called(cb))
  /\ UNCHANGED <<dbLayers, dbBasemap, envVars, appVars, now, manifest, check, i, results,
                 geojson, attempted, startManifest, startLayers, prev>>

\* the locals of a call that is over
Forget(kind) ==
  /\ pc' = "idle"
  /\ prev' = Summary(kind)
  /\ manifest' = Absent
  /\ check' = NoCheck
  /\ i' = 1
  /\ results' = <<>>
  /\ geojson' = Absent
  /\ result' = Pending
  /\ log' = <<>>
  /\ startManifest' = dbManifest
  /\ startLayers' = dbLayers
  /\ UNCHANGED <<storeVars, envVars, appVars, now, attempted>>

\* the caller receives the result
Return ==
  /\ pc = "done"
  /\ Forget("returned")

\* the page is closed or reloaded while the call is suspended at an await:
\* the store keeps what was written, everything in memory is lost
Interrupt ==
  /\ pc \in {"fetchManifest", "getStored", "check", "fetchLayer", "saveLayer",
             "saveManifest"}
  /\ Forget("interrupted")

\* between two calls the content server publishes another manifest
Publish ==
  /\ pc = "idle"
  /\ now < MaxRuns
  /\ srvManifest' \in ServerManifests \ {srvManifest}
  /\ UNCHANGED <<storeVars, baseUrl, appVars, now, pc, manifest, check, i, results,
                 geojson, result, log, attempted, startManifest, startLayers, prev>>

Next ==
  \/ StartSync
  \/ FetchManifest
  \/ GetStored
  \/ CheckSync
  \/ FetchLayer
  \/ SaveLayer
  \/ SaveManifest
  \/ Return
  \/ Interrupt
  \/ Publish

Spec == Init /\ [][Next]_vars

\* the sync runs against a server that can also answer with a malformed body
NextMalformed ==
  \/ Next
  \/ FetchMalformed

SpecMalformed == Init /\ [][NextMalformed]_vars

(***************************************************************************)
(* performFullSync on an installation that holds the layers of an earlier  *)
(* manifest and a layer the user uploaded.                                 *)
(***************************************************************************)
\* the manifest of the earlier session
FrameStoredManifest ==
  ContentManifest("v1", BasemapConfig("bm1", Undefined),
                  <<LayerConfig("roads", "h1"), LayerConfig("zones", "h1")>>)

\* what the server serves now: both layers changed, or roads changed and
\* zones no longer listed
FrameManifests ==
  {ContentManifest("v2", BasemapConfig("bm1", Undefined),
                   <<LayerConfig("roads", "h2"), LayerConfig("zones", "h2")>>),
   ContentManifest("v2", BasemapConfig("bm1", Undefined),
                   <<LayerConfig("roads", "h2")>>)}

\* the layers store: the two synced layers and the uploaded one
FrameLayers ==
  [k \in {"roads", "zones", UserLayerId} |->
     IF k = UserLayerId THEN UploadedLayer(k, k, 0)
     ELSE StoredLayer(LayerConfig(k, "h1"), k, 0)]

InitFrame ==
  /\ dbManifest = Some(StoredManifest(FrameStoredManifest, 0))
  /\ dbLayers = FrameLayers
  /\ dbBasemap = <<>>
  /\ baseUrl \in BaseUrls
  /\ srvManifest \in FrameManifests
  /\ now = 0
  /\ pc = "idle"
  /\ manifest = Absent
  /\ check = NoCheck
  /\ i = 1
  /\ results = <<>>
  /\ geojson = Absent
  /\ result = Pending
  /\ log = <<>>
  /\ attempted = {}
  /\ startManifest = dbManifest
  /\ startLayers = dbLayers
  /\ prev = NoPrev
  /\ AppCreated
  /\ EnvDefault

SpecFrame == InitFrame /\ [][Next]_vars

(***************************************************************************)
(* checkSyncNeeded as a function of its inputs: the new manifest ranges    *)
(* over every manifest of the universe and the store over every content    *)
(* the three object stores can have (the stores are filled by               *)
(* saveManifest, saveLayer and saveBasemap; records stay when the manifest *)
(* that announced them is gone or was never saved).                        *)
(***************************************************************************)
\* StoredBasemap (types): id, version, blob, sha256?, sizeBytes, storedAt
StoredBasemap(id, sha, blob, t) ==
  [id |-> id, version |-> t, blob |-> blob, sha256 |-> sha,
   sizeBytes |-> Len(blob), storedAt |-> t]

DiffManifestStores ==
  {Absent} \cup
  {Some(StoredManifest(ContentManifest(v, BasemapConfig("bm1", Undefined), <<>>), 0)) :
     v \in Versions}

DiffLayerStores ==
  UNION {{[k \in S |-> StoredLayer(LayerConfig(k, hs[k]), k, 0)] :
            hs \in [S -> OptHashes]} : S \in SUBSET LayerIds}

DiffBasemapStores ==
  UNION {{[k \in S |-> StoredBasemap(k, hs[k], <<1>>, 0)] :
            hs \in [S -> OptHashes]} : S \in SUBSET BasemapIds}

InitDiff ==
  /\ dbManifest \in DiffManifestStores
  /\ dbLayers \in DiffLayerStores
  /\ dbBasemap \in DiffBasemapStores
  /\ baseUrl = "https://content.example"
  /\ srvManifest \in Manifests
  /\ manifest = Some(srvManifest)
  /\ now = 0
  /\ pc = "diff"
  /\ check = NoCheck
  /\ i = 1
  /\ results = <<>>
  /\ geojson = Absent
  /\ result = Pending
  /\ log = <<>>
  /\ attempted = {}
  /\ startManifest = dbManifest
  /\ startLayers = dbLayers
  /\ prev = NoPrev
  /\ AppCreated
  /\ EnvDefault

\* checkSyncNeeded(manifest) is called
ApplyDiff ==
  /\ pc = "diff"
  /\ pc' = "diffDone"
  /\ check' = checkSyncNeeded(manifest[1], dbManifest, getAllLayers(dbLayers), dbBasemap)
  /\ UNCHANGED <<storeVars, envVars, appVars, now, manifest, i, results, geojson, result,
                 log, attempted, startManifest, startLayers, prev>>

NextDiff == ApplyDiff

SpecDiff == InitDiff /\ [][NextDiff]_vars

(***************************************************************************)
(* The status store on its own: its actions are applied in any order, with *)
(* the arguments the application passes at its call sites.                 *)
(***************************************************************************)
\* the locals and the history of the performFullSync process
callVars ==
  <<pc, manifest, check, i, results, geojson, result,
    log, attempted, startManifest, startLayers, prev>>

\* the reports a sync of at most two layers can make
ProgressReports ==
  {ReportNoServer, ReportFetching, ReportUpToDate, ReportComplete} \cup
  {ReportSyncing(n) : n \in 1..2} \cup
  {ReportLayer(progressArgs(i0, n)) : i0 \in 0..1, n \in 1..2}

\* the messages sync() passes to syncComplete and syncError
CompleteMessages == {Absent} \cup {Some(syncedMessage(n)) : n \in 0..2}
ErrorMessages == {"Content server unavailable", "QuotaExceededError", "Sync failed"}

InitStore ==
  /\ Init
  /\ baseUrl = "https://content.example"
  /\ srvManifest = CHOOSE m \in ServerManifests : TRUE

StoreStartSync ==
  /\ status' = startSync
  /\ lastOp' = "startSync"
  /\ UNCHANGED now

StoreSyncComplete ==
  /\ now < MaxRuns
  /\ now' = now + 1
  /\ \E success \in BOOLEAN, message \in CompleteMessages :
       /\ status' = syncComplete(success, message, now')
       /\ lastOp' = IF success THEN "syncComplete(true)" ELSE "syncComplete(false)"

StoreSyncError ==
  /\ \E message \in ErrorMessages : status' = syncError(message)
  /\ lastOp' = "syncError"
  /\ UNCHANGED now

StoreSetOffline ==
  /\ status' = setOffline(status)
  /\ lastOp' = "setOffline"
  /\ UNCHANGED now

StoreSetStatus ==
  /\ \E statusUpdate \in {reportUpdate(r) : r \in ProgressReports} \cup
                         {cachedUpdate, fallbackUpdate(now)} :
       status' = setStatus(status, statusUpdate)
  /\ lastOp' = "setStatus"
  /\ UNCHANGED now

\* the actions of the status write the status only
StoreFrame ==
  UNCHANGED <<storeVars, envVars, callVars, uiVars, procVars, dbSettings,
              satelliteUrl, online>>

NextStore ==
  \/ (StoreStartSync /\ StoreFrame)
  \/ (StoreSyncComplete /\ StoreFrame)
  \/ (StoreSyncError /\ StoreFrame)
  \/ (StoreSetOffline /\ StoreFrame)
  \/ (StoreSetStatus /\ StoreFrame)

SpecStore == InitStore /\ [][NextStore]_vars

(***************************************************************************)
(* The hook useSync: sync().  performFullSync runs inside each call, with   *)
(* the callback (message, progress) => setStatus(...),                     *)
(* which does not throw.                                                   *)
(***************************************************************************)
\* result.error?.includes('fetch') || result.error?.includes('network'),
\* over the error texts of the model
networkRelated(error) == error \in {"Failed to fetch", "A network error occurred"}

\* the status after the callback of sync() received report r
Reported(s, r) == setStatus(s, reportUpdate(r))

\* the layer map sync() and initialize() build from the stored layers
layerMapOf(layers) ==
  [k \in DOMAIN layers |->
     [geojson |-> layers[k].geojson, visible |-> layers[k].visible,
      name |-> layers[k].name]]

\* how many more sync() calls fit in the model
FreeCapacity == MaxSyncs - BagCardinality(calls)

\* call c goes on as d
Update(c, d) == calls' = (calls (-) SetToBag({c})) (+) SetToBag({d})

\* performFullSync resolves to res in call c
Resolve(c, res) == Update(c, [c EXCEPT !.pc = "resolved", !.result = res])

\* sync() is called n times in a row (once per listener or click): each call
\* runs startSync(), then performFullSync up to its first await
BeginSyncs(n, awaited) ==
  /\ n >= 1
  /\ lastOp' = "setStatus"
  /\ IF noServer(baseUrl)
     THEN /\ status' = Reported(startSync, ReportNoServer)
          /\ calls' = calls (+) [c \in {[NewCall EXCEPT !.pc = "resolved",
                                           !.result = Success(0),
                                           !.awaited = awaited]} |-> n]
     ELSE /\ status' = Reported(startSync, ReportFetching)
          /\ calls' = calls (+) [c \in {[NewCall EXCEPT !.pc = "fetchManifest",
                                           !.awaited = awaited]} |-> n]

\* one sync() call
BeginSync(awaited) == FreeCapacity >= 1 /\ BeginSyncs(1, awaited)

\* const manifest = await fetchManifest()
CallFetchManifest(c) ==
  /\ c.pc = "fetchManifest"
  /\ \E response \in ManifestResponses :
       LET m == fetchManifest(baseUrl, response, srvManifest)
       IN  Update(c, [c EXCEPT !.manifest = m,
                        !.pc = IF m = Absent THEN "getStored" ELSE "check"])
  /\ UNCHANGED <<storeVars, dbSettings, statusVars, uiVars, now>>

\* const stored = await getStoredManifest()
CallGetStored(c) ==
  /\ c.pc = "getStored"
  /\ \E st \in StoreOutcomes :
       Resolve(c, IF st.threw THEN catchResult(st) ELSE manifestUnavailable(dbManifest))
  /\ UNCHANGED <<storeVars, dbSettings, statusVars, uiVars, now>>

\* await checkSyncNeeded(manifest), the needsSync test and the report
CallCheck(c) ==
  /\ c.pc = "check"
  /\ \E st \in StoreOutcomes :
       IF st.threw
       THEN /\ Resolve(c, catchResult(st))
            /\ UNCHANGED statusVars
       ELSE LET ch == checkSyncNeeded(c.manifest[1], dbManifest,
                                      getAllLayers(dbLayers), dbBasemap)
                n == Len(ch.changedLayers)
            IN  /\ lastOp' = "setStatus"
                /\ IF ~ch.needsSync
                   THEN /\ status' = Reported(status, ReportUpToDate)
                        /\ Update(c, [c EXCEPT !.check = ch, !.pc = "resolved",
                                                !.result = Success(0)])
                   ELSE /\ status' = Reported(status, ReportSyncing(n))
                        /\ Update(c, [c EXCEPT !.check = ch, !.i = 1,
                                                !.pc = afterLayer(0, n)])
  /\ UNCHANGED <<storeVars, dbSettings, uiVars, now>>

\* the end of one iteration of syncLayers in call c
CallLayerDone(c) ==
  LET n == Len(c.check.changedLayers)
  IN  /\ status' = Reported(status, ReportLayer(progressArgs(c.i - 1, n)))
      /\ lastOp' = "setStatus"
      /\ Update(c, [c EXCEPT !.i = @ + 1, !.pc = afterLayer(c.i, n)])

\* syncLayer: const geojson = await fetchAndParseKML(url)
CallFetchLayer(c) ==
  /\ c.pc = "fetchLayer"
  /\ \E response \in LayerResponses :
       IF response = "ok"
       THEN /\ Update(c, [c EXCEPT !.pc = "saveLayer"])
            /\ UNCHANGED statusVars
       ELSE CallLayerDone(c)
  /\ UNCHANGED <<storeVars, dbSettings, uiVars, now>>

\* syncLayer: await saveLayer(storedLayer)
CallSaveLayer(c) ==
  /\ c.pc = "saveLayer"
  /\ LET layer == c.check.changedLayers[c.i]
     IN  \E st \in StoreOutcomes :
           /\ dbLayers' = IF st.threw THEN dbLayers
                          ELSE saveLayer(dbLayers, StoredLayer(layer, layer.url, now))
           /\ CallLayerDone(c)
  /\ UNCHANGED <<dbManifest, dbBasemap, dbSettings, uiVars, now>>

\* await saveManifest(...), the last report and the return
CallSaveManifest(c) ==
  /\ c.pc = "saveManifest"
  /\ \E st \in StoreOutcomes :
       IF st.threw
       THEN /\ Resolve(c, catchResult(st))
            /\ UNCHANGED <<dbManifest, statusVars>>
       ELSE /\ dbManifest' = Some(StoredManifest(c.manifest[1], now))
            /\ status' = Reported(status, ReportComplete)
            /\ lastOp' = "setStatus"
            /\ Resolve(c, Success(Len(c.check.changedLayers)))
  /\ UNCHANGED <<dbLayers, dbBasemap, dbSettings, uiVars, now>>

\* sync() is over in call c: an awaited call keeps its outcome for the
\* awaiting downloadOfflineBasemap, any other call is gone
Leave(c, outcome) ==
  IF c.awaited THEN Update(c, [c EXCEPT !.pc = outcome])
  ELSE calls' = calls (-) SetToBag({c})

\* sync() after `await performFullSync(...)`
CallResolved(c) ==
  /\ c.pc = "resolved"
  /\ IF c.result.success
     THEN /\ status' = syncComplete(TRUE, Some(syncedMessage(c.result.layersSynced)), now)
          /\ lastOp' = "syncComplete(true)"
          /\ Update(c, [c EXCEPT !.pc = "refresh"])
     ELSE /\ IF networkRelated(c.result.error)
             THEN status' = setOffline(status) /\ lastOp' = "setOffline"
             ELSE status' = syncError(c.result.error) /\ lastOp' = "syncError"
          /\ Leave(c, "returned")
  /\ UNCHANGED <<storeVars, dbSettings, uiVars, now>>

\* const layers = await getAllLayers(); setLayers(layerMap); return result
CallRefresh(c) ==
  /\ c.pc = "refresh"
  /\ \E st \in StoreOutcomes :
       IF st.threw
       THEN Leave(c, "rejected") /\ UNCHANGED mapLayers
       ELSE Leave(c, "returned") /\ mapLayers' = layerMapOf(dbLayers)
  /\ UNCHANGED <<storeVars, dbSettings, statusVars, storeManifest, downloadProgress,
                 showDownloadPrompt, hasOfflineBasemap, basemapBlob, promptError, now>>

\* one step of a sync() call in flight
SyncSteps(c) ==
  \/ CallFetchManifest(c)
  \/ CallGetStored(c)
  \/ CallCheck(c)
  \/ CallFetchLayer(c)
  \/ CallSaveLayer(c)
  \/ CallSaveManifest(c)
  \/ CallResolved(c)
  \/ CallRefresh(c)

\* what a sync() call started from an event handler leaves alone
SyncCallFrame ==
  UNCHANGED <<storeVars, dbSettings, uiVars, envVars, callVars, shortVars, satelliteUrl,
              dl, dlEvents, hist>>

\* the effects of the components have run: the listeners and timers exist
Mounted == \A h \in Hooks : hooks[h].timer # "none"

\* the download prompt has not been unmounted
PromptMounted == hooks["DownloadPrompt"].timer # "cleared"

\* the smaller of two numbers
Min(a, b) == IF a <= b THEN a ELSE b

\* the timer of the mount effect, 1000 ms after the mount of component h
TimerFires(h) ==
  /\ hooks[h].timer = "armed"
  /\ hooks' = [hooks EXCEPT ![h].timer = "fired"]
  /\ IF online /\ ~noServer(baseUrl)
     THEN BeginSync(FALSE)
     ELSE /\ IF ~online
             THEN status' = setOffline(status) /\ lastOp' = "setOffline"
             ELSE UNCHANGED statusVars
          /\ UNCHANGED calls
  /\ UNCHANGED <<online, now>>
  /\ SyncCallFrame

\* the browser goes online: handleOnline of every instance calls sync(), as
\* far as there are slots
GoOnline ==
  /\ Mounted
  /\ ~online
  /\ online' = TRUE
  /\ BeginSyncs(Min(Cardinality(Hooks), FreeCapacity), FALSE)
  /\ UNCHANGED <<hooks, now>>
  /\ SyncCallFrame

\* the browser goes offline: handleOffline of every instance calls setOffline()
GoOffline ==
  /\ Mounted
  /\ online
  /\ online' = FALSE
  /\ status' = setOffline(status)
  /\ lastOp' = "setOffline"
  /\ UNCHANGED <<hooks, calls, now>>
  /\ SyncCallFrame

\* SyncStatus, handleSyncClick: sync() unless the state is syncing
SyncClick ==
  /\ Mounted
  /\ status.state # "syncing"
  /\ BeginSync(FALSE)
  /\ UNCHANGED <<hooks, online, now>>
  /\ SyncCallFrame

(***************************************************************************)
(* The hook useSync: initialize().                                         *)
(***************************************************************************)
\* StoredSettings as saveSettings creates it
DefaultSettings ==
  [id |-> "user", followMode |-> TRUE, headingSource |-> "auto",
   basemapDownloaded |-> FALSE, lastBasemapId |-> Undefined, ringsEnabled |-> TRUE]

\* settings?.basemapDownloaded ?? false
hasBasemapOf(settings) == IF settings = Absent THEN FALSE ELSE settings[1].basemapDownloaded

\* settings?.lastBasemapId
lastBasemapIdOf(settings) == IF settings = Absent THEN Undefined ELSE settings[1].lastBasemapId

\* the status writes of sync()
SyncOps == {"syncComplete(true)", "syncError"}

\* a catch block that lets the error go: the promise of initialize() rejects
InitFailed_rethrows(h) ==
  /\ hooks' = [hooks EXCEPT ![h].init = "rejected"]
  /\ UNCHANGED <<statusVars, showDownloadPrompt>>

\* the catch block of initialize(): setOffline(), and the call resolves
InitFailed(h) ==
  /\ status' = setOffline(status)
  /\ lastOp' = "setOffline"
  /\ hooks' = [hooks EXCEPT ![h].init = "failed"]
  /\ UNCHANGED showDownloadPrompt

\* the end of initialize(): the initial status and the download prompt
InitStatus(h, hasLayers, hasBasemap) ==
  LET cached == IF hasLayers \/ hasBasemap THEN setStatus(status, cachedUpdate) ELSE status
      final == IF noServer(baseUrl) /\ satelliteUrl # ""
               THEN setStatus(cached, fallbackUpdate(now)) ELSE cached
  IN  /\ status' = final
      /\ lastOp' = IF hasLayers \/ hasBasemap \/ (noServer(baseUrl) /\ satelliteUrl # "")
                   THEN "setStatus" ELSE lastOp
      /\ showDownloadPrompt' = IF ~hasBasemap /\ ~noServer(baseUrl) THEN TRUE
                               ELSE showDownloadPrompt
      /\ hooks' = [hooks EXCEPT ![h].init = "done"]

\* initialize() up to its first await: the guard on isInitializedRef
initializeCall(hook) ==
  IF hook.isInitialized THEN hook
  ELSE [hook EXCEPT !.isInitialized = TRUE, !.init = "loading"]

\* the store reads one initialize() call starts
loadsOf(hook) == IF hook.isInitialized THEN 0 ELSE 1

\* the sum of f over the components
RECURSIVE SumOver(_, _)
SumOver(f, S) ==
  IF S = {} THEN 0
  ELSE LET h == CHOOSE x \in S : TRUE IN f[h] + SumOver(f, S \ {h})

\* the first commit: the effects of every component run in one flush, each
\* mount effect calls initialize() (twice, as the application is rendered
\* under React.StrictMode) and arms the timer
Mount ==
  /\ ~Mounted
  /\ hooks' = [h \in Hooks |->
                 [initializeCall(initializeCall(hooks[h])) EXCEPT !.timer = "armed"]]
  /\ hist' = [hist EXCEPT !.loads = @ + SumOver(
                 [h \in Hooks |-> loadsOf(hooks[h]) + loadsOf(initializeCall(hooks[h]))],
                 Hooks)]
  /\ UNCHANGED <<storeVars, dbSettings, statusVars, uiVars, envVars, callVars, shortVars,
                 satelliteUrl, online, calls, dl, dlEvents, now>>

\* initialize() after `await initializeAppData()`
LoadAppData(h) ==
  /\ hooks[h].init = "loading"
  /\ \E st \in StoreOutcomes :
       IF st.threw
       THEN /\ InitFailed(h)
            /\ UNCHANGED <<storeManifest, mapLayers, hasOfflineBasemap, hist>>
       ELSE LET hasLayers == DOMAIN dbLayers # {}
                hasBasemap == hasBasemapOf(dbSettings)
                lastId == lastBasemapIdOf(dbSettings)
            IN  /\ storeManifest' = IF dbManifest # Absent
                                    THEN Some(dbManifest[1].rawJson) ELSE storeManifest
                /\ mapLayers' = IF hasLayers THEN layerMapOf(dbLayers) ELSE mapLayers
                /\ hasOfflineBasemap' = hasBasemap
                /\ hist' = [hist EXCEPT !.publishes = @ + 1]
                /\ IF hasBasemap /\ Truthy(lastId)
                   THEN /\ hooks' = [hooks EXCEPT ![h].init = "basemap",
                                       ![h].hasLayers = hasLayers,
                                       ![h].hasBasemap = hasBasemap,
                                       ![h].lastBasemapId = lastId]
                        /\ UNCHANGED <<statusVars, showDownloadPrompt>>
                   ELSE InitStatus(h, hasLayers, hasBasemap)
  /\ UNCHANGED <<storeVars, dbSettings, downloadProgress, basemapBlob, promptError,
                 envVars, callVars, shortVars, satelliteUrl, online, calls, dl, dlEvents, now>>

\* initialize() after `await getStoredBasemap(settings.lastBasemapId)`
LoadBasemapBlob(h) ==
  /\ hooks[h].init = "basemap"
  /\ \E st \in StoreOutcomes :
       IF st.threw
       THEN InitFailed(h) /\ UNCHANGED basemapBlob
       ELSE LET basemap == getStoredBasemap(dbBasemap, hooks[h].lastBasemapId)
            IN  /\ basemapBlob' = IF basemap # Absent THEN Some(basemap[1].blob)
                                  ELSE basemapBlob
                /\ InitStatus(h, hooks[h].hasLayers, hooks[h].hasBasemap)
  /\ UNCHANGED <<storeVars, dbSettings, storeManifest, downloadProgress, mapLayers,
                 hasOfflineBasemap, promptError, hist,
                 envVars, callVars, shortVars, satelliteUrl, online, calls, dl, dlEvents, now>>

(***************************************************************************)
(* downloadBasemap and the hook's downloadOfflineBasemap, called by the    *)
(* Download button of DownloadPrompt.                                      *)
(***************************************************************************)
\* the chunks reader.read() can deliver (the bytes themselves do not matter)
Chunks == {<<>>, <<0>>, <<0, 0>>}

\* the content-length header: missing, or a decimal number
ContentLengths == {Absent} \cup {Some(n) : n \in 0..2}

\* fetch(fullUrl): rejected, a non-2xx status, a response without a body, or
\* a response with a body
BasemapResponses == {"rejected", "non2xx", "nobody", "ok"}

\* contentLength ? parseInt(contentLength, 10) : 0
totalOf(contentLength) == IF contentLength = Absent THEN 0 ELSE contentLength[1]

\* Math.round((loaded / total) * 100) for loaded, total >= 0
percentageOf(loaded, total) ==
  IF total > 0 THEN (2 * loaded * 100 + total) \div (2 * total) ELSE 0

\* the DownloadProgress objects downloadBasemap passes to onProgress
FetchingEvent(loaded, total) ==
  [phase |-> "fetching", loaded |-> loaded, total |-> total,
   percentage |-> percentageOf(loaded, total)]

\* a storing event that does not carry the bytes loaded
StoringEvent_zero(loaded) ==
  [phase |-> "storing", loaded |-> 0, total |-> 0, percentage |-> 100]

StoringEvent(loaded) ==
  [phase |-> "storing", loaded |-> loaded, total |-> loaded, percentage |-> 100]
CompleteEvent(loaded) ==
  [phase |-> "complete", loaded |-> loaded, total |-> loaded, percentage |-> 100]

\* db.put('basemap', basemap)
saveBasemap(basemaps, rec) ==
  [k \in DOMAIN basemaps \cup {rec.id} |-> IF k = rec.id THEN rec ELSE basemaps[k]]

\* saveSettings({ basemapDownloaded: true, lastBasemapId: id }): merged into
\* the existing record or into the defaults
saveSettings(settings, id) ==
  Some([(IF settings = Absent THEN DefaultSettings ELSE settings[1])
          EXCEPT !.basemapDownloaded = TRUE, !.lastBasemapId = id])

\* onProgress of downloadOfflineBasemap: setDownloadProgress(progress)
Emit(ev) ==
  /\ downloadProgress' = Some(ev)
  /\ dlEvents' = Append(dlEvents, ev)

\* the call ends: handleDownload stores the message of a caught error
DlEnds(how, err) ==
  /\ dl' = [NoDownload EXCEPT !.last = how, !.at = dl.pc, !.synced = dl.synced]
  /\ promptError' = err

\* downloadBasemap throws: the error reaches the catch of handleDownload
DlThrows(msg) ==
  /\ DlEnds("downloadThrew", Some(msg))
  /\ UNCHANGED <<downloadProgress, dlEvents>>

\* downloadBasemap is called with the published basemap config and runs up
\* to `await fetch(fullUrl)`
BeginDownload(m) ==
  /\ dl' = [dl EXCEPT !.pc = "fetch", !.config = Some(m.basemap), !.total = 0,
              !.loaded = 0, !.chunks = <<>>, !.nchunks = 0]
  /\ downloadProgress' = Some(FetchingEvent(0, 0))
  /\ dlEvents' = <<FetchingEvent(0, 0)>>
  /\ hist' = [hist EXCEPT !.basemapAtStart = dbBasemap, !.settingsAtStart = dbSettings]

\* what the steps of a download leave alone
DlFrame ==
  UNCHANGED <<dbManifest, dbLayers, storeManifest, mapLayers, statusVars,
              envVars, callVars, shortVars, satelliteUrl, online, hooks>>

\* handleDownload: setError(null); await downloadOfflineBasemap(), which
\* awaits sync() when no manifest is published
DownloadClick ==
  /\ Mounted
  /\ PromptMounted
  /\ showDownloadPrompt
  /\ downloadProgress = Absent
  /\ dl.pc = "idle"
  /\ promptError' = Absent
  /\ IF storeManifest = Absent
     THEN /\ BeginSync(TRUE)
          /\ dl' = [NoDownload EXCEPT !.pc = "awaitSync"]
          /\ UNCHANGED <<downloadProgress, dlEvents, hist>>
     ELSE /\ BeginDownload(storeManifest[1])
          /\ UNCHANGED <<statusVars, calls>>
  /\ UNCHANGED <<now, storeVars, dbSettings, storeManifest, showDownloadPrompt,
                 mapLayers, hasOfflineBasemap, basemapBlob, envVars, callVars, shortVars,
                 satelliteUrl, online, hooks>>

\* downloadOfflineBasemap after `await sync()`
DownloadAfterSync ==
  /\ dl.pc = "awaitSync"
  /\ \E c \in BagToSet(calls) :
       /\ c.awaited
       /\ c.pc \in {"returned", "rejected"}
       /\ calls' = calls (-) SetToBag({c})
       /\ IF c.pc = "rejected"
          THEN /\ DlEnds("syncRejected", Some("QuotaExceededError"))
               /\ UNCHANGED <<downloadProgress, dlEvents, hist>>
          ELSE IF storeManifest = Absent
          THEN /\ dl' = [NoDownload EXCEPT !.last = "noConfig", !.at = dl.pc,
                                           !.synced = c.manifest]
               /\ promptError' = Some("No basemap configuration available")
               /\ UNCHANGED <<downloadProgress, dlEvents, hist>>
          ELSE /\ BeginDownload(storeManifest[1])
               /\ UNCHANGED promptError
  /\ UNCHANGED <<dbBasemap, dbSettings, showDownloadPrompt, hasOfflineBasemap,
                 basemapBlob, now>>
  /\ DlFrame

\* downloadBasemap after `await fetch(fullUrl)`
DlFetch ==
  /\ dl.pc = "fetch"
  /\ \E response \in BasemapResponses, contentLength \in ContentLengths :
       CASE response = "rejected" -> DlThrows("Failed to fetch")
         [] response = "non2xx" -> DlThrows("Failed to download basemap: 404")
         [] response = "nobody" -> DlThrows("Response body is null")
         [] OTHER -> /\ dl' = [dl EXCEPT !.pc = "read", !.total = totalOf(contentLength)]
                     /\ UNCHANGED <<promptError, downloadProgress, dlEvents>>
  /\ UNCHANGED <<dbBasemap, dbSettings, showDownloadPrompt, hasOfflineBasemap,
                 basemapBlob, calls, hist, now>>
  /\ DlFrame

\* a read loop that writes the basemap record as the chunks arrive
DlRead_persistsPartial ==
  /\ dl.pc = "read"
  /\ \/ DlThrows("network error") /\ UNCHANGED dbBasemap
     \/ /\ dl' = [dl EXCEPT !.pc = "saveBasemap"]
        /\ Emit(StoringEvent(dl.loaded))
        /\ UNCHANGED <<promptError, dbBasemap>>
     \/ /\ dl.nchunks < MaxChunks
        /\ \E value \in Chunks :
             /\ dl' = [dl EXCEPT !.chunks = @ \o value, !.loaded = @ + Len(value),
                                 !.nchunks = @ + 1]
             /\ Emit(FetchingEvent(dl.loaded + Len(value), dl.total))
             /\ dbBasemap' = saveBasemap(dbBasemap,
                  StoredBasemap(dl.config[1].id, dl.config[1].sha256,
                                dl.chunks \o value, now))
        /\ UNCHANGED promptError
  /\ UNCHANGED <<dbSettings, showDownloadPrompt, hasOfflineBasemap,
                 basemapBlob, calls, hist, now>>
  /\ DlFrame

\* downloadBasemap after `await reader.read()`: the read fails, the stream
\* is done (the storing event), or a chunk arrives (a fetching event)
DlRead ==
  /\ dl.pc = "read"
  /\ \/ DlThrows("network error")
     \/ /\ dl' = [dl EXCEPT !.pc = "saveBasemap"]
        /\ Emit(StoringEvent(dl.loaded))
        /\ UNCHANGED promptError
     \/ /\ dl.nchunks < MaxChunks
        /\ \E value \in Chunks :
             /\ dl' = [dl EXCEPT !.chunks = @ \o value, !.loaded = @ + Len(value),
                                 !.nchunks = @ + 1]
             /\ Emit(FetchingEvent(dl.loaded + Len(value), dl.total))
        /\ UNCHANGED promptError
  /\ UNCHANGED <<dbBasemap, dbSettings, showDownloadPrompt, hasOfflineBasemap,
                 basemapBlob, calls, hist, now>>
  /\ DlFrame

\* a saveBasemap that resolves without having written the record
DlSaveBasemap_forgets ==
  /\ dl.pc = "saveBasemap"
  /\ dl' = [dl EXCEPT !.pc = "saveSettings"]
  /\ UNCHANGED <<promptError, downloadProgress, dlEvents>>
  /\ UNCHANGED <<dbBasemap, dbSettings, showDownloadPrompt, hasOfflineBasemap,
                 basemapBlob, calls, hist, now>>
  /\ DlFrame

\* downloadBasemap after `await saveBasemap(...)`
DlSaveBasemap ==
  /\ dl.pc = "saveBasemap"
  /\ \E st \in StoreOutcomes :
       IF st.threw
       THEN DlThrows(st.message) /\ UNCHANGED dbBasemap
       ELSE /\ dbBasemap' = saveBasemap(dbBasemap,
                 StoredBasemap(dl.config[1].id, dl.config[1].sha256, dl.chunks, now))
            /\ dl' = [dl EXCEPT !.pc = "saveSettings"]
            /\ UNCHANGED <<promptError, downloadProgress, dlEvents>>
  /\ UNCHANGED <<dbSettings, showDownloadPrompt, hasOfflineBasemap, basemapBlob,
                 calls, hist, now>>
  /\ DlFrame

\* saveSettings called by downloadBasemap, after its
\* `await db.get('settings', 'user')`: the record to merge into
DlSaveSettings ==
  /\ dl.pc = "saveSettings"
  /\ \E st \in StoreOutcomes :
       IF st.threw
       THEN DlThrows(st.message)
       ELSE /\ dl' = [dl EXCEPT !.pc = "putSettings", !.existing = dbSettings]
            /\ UNCHANGED <<promptError, downloadProgress, dlEvents>>
  /\ UNCHANGED <<dbBasemap, dbSettings, showDownloadPrompt, hasOfflineBasemap,
                 basemapBlob, calls, hist, now>>
  /\ DlFrame

\* saveSettings after `await db.put('settings', { ...existing, ...settings })`,
\* then the complete event of downloadBasemap; downloadOfflineBasemap goes
\* on to `await getStoredBasemap(id)`
DlPutSettings ==
  /\ dl.pc = "putSettings"
  /\ \E st \in StoreOutcomes :
       IF st.threw
       THEN DlThrows(st.message) /\ UNCHANGED dbSettings
       ELSE /\ dbSettings' = saveSettings(dl.existing, dl.config[1].id)
            /\ dl' = [dl EXCEPT !.pc = "getStored"]
            /\ Emit(CompleteEvent(dl.loaded))
            /\ UNCHANGED promptError
  /\ UNCHANGED <<dbBasemap, showDownloadPrompt, hasOfflineBasemap, basemapBlob,
                 calls, hist, now>>
  /\ DlFrame

\* downloadOfflineBasemap after `await getStoredBasemap(basemapConfig.id)`
DlLoad ==
  /\ dl.pc = "getStored"
  /\ \E st \in StoreOutcomes :
       IF st.threw
       THEN /\ DlEnds("loadThrew", Some(st.message))
            /\ UNCHANGED <<downloadProgress, showDownloadPrompt, hasOfflineBasemap,
                           basemapBlob>>
       ELSE LET basemap == getStoredBasemap(dbBasemap, dl.config[1].id)
            IN  /\ basemapBlob' = IF basemap # Absent THEN Some(basemap[1].blob)
                                  ELSE basemapBlob
                /\ hasOfflineBasemap' = IF basemap # Absent THEN TRUE
                                        ELSE hasOfflineBasemap
                /\ downloadProgress' = Absent
                /\ showDownloadPrompt' = FALSE
                /\ DlEnds("resolved", promptError)
  /\ UNCHANGED <<dbBasemap, dbSettings, dlEvents, calls, hist, now>>
  /\ DlFrame

\* handleSkip of DownloadPrompt
SkipClick ==
  /\ PromptMounted
  /\ showDownloadPrompt
  /\ downloadProgress = Absent
  /\ showDownloadPrompt' = FALSE
  /\ UNCHANGED <<storeVars, dbSettings, statusVars, storeManifest, downloadProgress,
                 mapLayers, hasOfflineBasemap, basemapBlob, promptError, procVars,
                 envVars, callVars, satelliteUrl, online, now>>

\* the download prompt unmounts while downloadBasemap streams: the cleanup
\* of its effect removes the listeners and clears the timer, its state is
\* gone; the promise of downloadOfflineBasemap is not cancelled
Unmount ==
  /\ PromptMounted
  /\ dl.pc \in {"fetch", "read"}
  /\ hooks' = [hooks EXCEPT !["DownloadPrompt"].timer = "cleared"]
  /\ promptError' = Absent
  /\ UNCHANGED <<storeVars, dbSettings, statusVars, storeManifest, downloadProgress,
                 showDownloadPrompt, mapLayers, hasOfflineBasemap, basemapBlob,
                 calls, dl, dlEvents, hist, shortVars, envVars, callVars,
                 satelliteUrl, online, now>>

(***************************************************************************)
(* The settings store: setFollowMode and saveCurrentSettings.              *)
(***************************************************************************)
\* { ...existing, ...settings } of saveSettings
mergeSettings(existing, patch) ==
  [k \in DOMAIN existing \cup DOMAIN patch |->
     IF k \in DOMAIN patch THEN patch[k] ELSE existing[k]]

\* the argument of saveSettings in saveCurrentSettings, with the rings as
\* the store creates them (ringConfig is left out of the model)
currentSettings(followMode) == [ringsEnabled |-> TRUE, followMode |-> followMode]

\* what the steps of a settings save leave alone
SaveFrame ==
  UNCHANGED <<storeVars, statusVars, uiVars, hooks, calls, dl, dlEvents, hist,
              toggle, envVars, callVars, satelliteUrl, online, now>>

\* setFollowMode(enabled): saveCurrentSettings(), which runs saveSettings up
\* to `await db.get('settings', 'user')`
FollowClick ==
  /\ Mounted
  /\ saving.pc = "idle"
  /\ saving.n < MaxSaves
  /\ \E enabled \in BOOLEAN :
       saving' = [NoSave EXCEPT !.pc = "get", !.patch = currentSettings(enabled),
                                !.n = saving.n + 1]
  /\ UNCHANGED dbSettings
  /\ SaveFrame

\* saveSettings after `await db.get('settings', 'user')`
SaveGet ==
  /\ saving.pc = "get"
  /\ \E st \in StoreOutcomes :
       IF st.threw
       THEN saving' = [saving EXCEPT !.pc = "idle", !.last = "rejected"]
       ELSE saving' = [saving EXCEPT !.pc = "put", !.existing = dbSettings]
  /\ UNCHANGED dbSettings
  /\ SaveFrame

\* saveSettings after `await db.put('settings', { ...existing, ...settings })`
SavePut ==
  /\ saving.pc = "put"
  /\ \E st \in StoreOutcomes :
       IF st.threw
       THEN /\ saving' = [saving EXCEPT !.pc = "idle", !.existing = Absent,
                                        !.last = "rejected"]
            /\ UNCHANGED dbSettings
       ELSE /\ saving' = [saving EXCEPT !.pc = "idle", !.existing = Absent,
                                        !.last = "resolved"]
            /\ dbSettings' =
                 Some(mergeSettings(IF saving.existing = Absent THEN DefaultSettings
                                    ELSE saving.existing[1], saving.patch))
  /\ SaveFrame

(***************************************************************************)
(* toggleLayerVisibility of the hook, called by the layer panel.           *)
(***************************************************************************)
\* the ids the layer panel can pass: a synced layer, and one that is in
\* neither the published layer map nor the store
UnknownLayerId == "gone"
ToggleIds == {"roads", UnknownLayerId}

\* setLayerVisibility of the map store: no-op for an id that is not published
setLayerVisibility(layers, id, visible) ==
  IF id \in DOMAIN layers THEN [layers EXCEPT ![id].visible = visible] ELSE layers

\* what the steps of a toggle leave alone
ToggleFrame ==
  UNCHANGED <<dbManifest, dbBasemap, dbSettings, statusVars, storeManifest,
              downloadProgress, showDownloadPrompt, hasOfflineBasemap, basemapBlob,
              promptError, hooks, calls, dl, dlEvents, hist, saving, envVars,
              callVars, satelliteUrl, online, now>>

\* toggleLayerVisibility(layerId, visible): setMapLayerVisibility, then
\* updateLayerVisibility up to `await db.get('layers', id)`
ToggleClick ==
  /\ Mounted
  /\ toggle.pc = "idle"
  /\ \E id \in ToggleIds, visible \in BOOLEAN :
       /\ mapLayers' = setLayerVisibility(mapLayers, id, visible)
       /\ toggle' = [NoToggle EXCEPT !.pc = "get", !.id = id, !.visible = visible]
  /\ UNCHANGED dbLayers
  /\ ToggleFrame

\* updateLayerVisibility after `await db.get('layers', id)`: layer.visible =
\* visible on the record read, or nothing when there is none
ToggleGet ==
  /\ toggle.pc = "get"
  /\ \E st \in StoreOutcomes :
       IF st.threw
       THEN toggle' = [toggle EXCEPT !.pc = "idle", !.last = "rejected"]
       ELSE IF toggle.id \in DOMAIN dbLayers
       THEN toggle' = [toggle EXCEPT !.pc = "put",
                         !.layer = Some([dbLayers[toggle.id] EXCEPT
                                           !.visible = toggle.visible])]
       ELSE toggle' = [toggle EXCEPT !.pc = "idle", !.last = "resolved"]
  /\ UNCHANGED <<dbLayers, mapLayers>>
  /\ ToggleFrame

\* updateLayerVisibility after `await db.put('layers', layer)`
TogglePut ==
  /\ toggle.pc = "put"
  /\ \E st \in StoreOutcomes :
       IF st.threw
       THEN /\ toggle' = [toggle EXCEPT !.pc = "idle", !.last = "rejected"]
            /\ UNCHANGED dbLayers
       ELSE /\ toggle' = [toggle EXCEPT !.pc = "idle", !.last = "resolved"]
            /\ dbLayers' = saveLayer(dbLayers, toggle.layer[1])
  /\ UNCHANGED mapLayers
  /\ ToggleFrame

(***************************************************************************)
(* The application after a page load.                                      *)
(***************************************************************************)
\* the manifest the content server serves to the application
AppManifest ==
  ContentManifest("v1", BasemapConfig("bm1", Undefined), <<LayerConfig("roads", "h1")>>)

\* what an earlier session can have left in the store: nothing, the synced
\* manifest and layer, or these and the downloaded basemap
Installations ==
  LET synced == [k \in {"roads"} |-> StoredLayer(AppManifest.layers[1], "roads", 0)]
  IN  {[manifest |-> Absent, layers |-> <<>>, basemap |-> <<>>, settings |-> Absent],
       [manifest |-> Some(StoredManifest(AppManifest, 0)), layers |-> synced,
        basemap |-> <<>>, settings |-> Absent],
       [manifest |-> Some(StoredManifest(AppManifest, 0)), layers |-> synced,
        basemap |-> [k \in {"bm1"} |-> StoredBasemap("bm1", Undefined, <<0>>, 0)],
        settings |-> saveSettings(Absent, "bm1")]}

SatelliteUrls == {"", "https://tiles.example"}

InitApp ==
  /\ \E inst \in Installations :
       /\ dbManifest = inst.manifest
       /\ dbLayers = inst.layers
       /\ dbBasemap = inst.basemap
       /\ dbSettings = inst.settings
  /\ baseUrl \in BaseUrls
  /\ srvManifest = AppManifest
  /\ satelliteUrl \in SatelliteUrls
  /\ online = TRUE
  /\ now = 1
  /\ pc = "app"
  /\ manifest = Absent
  /\ check = NoCheck
  /\ i = 1
  /\ results = <<>>
  /\ geojson = Absent
  /\ result = Pending
  /\ log = <<>>
  /\ attempted = {}
  /\ startManifest = dbManifest
  /\ startLayers = dbLayers
  /\ prev = NoPrev
  /\ AppCreated

\* the steps of the sync() calls in flight
SyncStep ==
  /\ \E c \in BagToSet(calls) : SyncSteps(c)
  /\ UNCHANGED <<envVars, callVars, shortVars, satelliteUrl, online, hooks, dl, dlEvents, hist>>

\* initialize() in every component, and the syncs their timers start
NextInit ==
  \/ Mount
  \/ \E h \in Hooks : LoadAppData(h)
  \/ \E h \in Hooks : LoadBasemapBlob(h)
  \/ \E h \in Hooks : TimerFires(h)
  \/ SyncStep

SpecInit == InitApp /\ [][NextInit]_vars

\* sync() called by the timers, the online event and the sync button, with
\* offline events in between; initialize() stays at its first await
NextSync ==
  \/ Mount
  \/ \E h \in Hooks : TimerFires(h)
  \/ GoOnline
  \/ GoOffline
  \/ SyncClick
  \/ SyncStep

InitSync == InitApp /\ satelliteUrl = ""

SpecSync == InitSync /\ [][NextSync]_vars

\* every network request and store operation of a sync() call in flight
\* eventually completes or fails
SpecLive == InitSync /\ [][NextSync]_vars /\ WF_vars(SyncStep)

NextDownload ==
  \/ Mount
  \/ \E h \in Hooks : LoadAppData(h)
  \/ \E h \in Hooks : LoadBasemapBlob(h)
  \/ DownloadClick
  \/ DownloadAfterSync
  \/ DlFetch
  \/ DlRead
  \/ DlSaveBasemap
  \/ DlSaveSettings
  \/ DlPutSettings
  \/ DlLoad
  \/ SkipClick
  \/ SyncStep

SpecDownload == InitApp /\ [][NextDownload]_vars

\* a download whose prompt can unmount while the response is read
NextAbandon ==
  \/ NextDownload
  \/ Unmount

SpecAbandon == InitApp /\ [][NextAbandon]_vars

\* a download while the user changes the follow mode, on an installation
\* that has synced (no sync is needed to know the basemap) and has no
\* basemap yet
NextSettings ==
  \/ Mount
  \/ \E h \in Hooks : LoadAppData(h)
  \/ DownloadClick
  \/ DlFetch
  \/ DlRead
  \/ DlSaveBasemap
  \/ DlSaveSettings
  \/ DlPutSettings
  \/ DlLoad
  \/ FollowClick
  \/ SaveGet
  \/ SavePut

InitSettings ==
  /\ InitApp
  /\ dbManifest # Absent
  /\ dbSettings = Absent
  /\ baseUrl # ""
  /\ satelliteUrl = ""

SpecSettings == InitSettings /\ [][NextSettings]_vars

\* the memory of the page when it is loaded, the browser online
PageLoaded ==
  /\ online = TRUE
  /\ now = 1
  /\ pc = "app"
  /\ manifest = Absent
  /\ check = NoCheck
  /\ i = 1
  /\ results = <<>>
  /\ geojson = Absent
  /\ result = Pending
  /\ log = <<>>
  /\ attempted = {}
  /\ startManifest = dbManifest
  /\ startLayers = dbLayers
  /\ prev = NoPrev
  /\ AppCreated

\* the server has replaced the file of the layer roads since the last session
UpdatedManifest ==
  ContentManifest("v2", BasemapConfig("bm1", Undefined), <<LayerConfig("roads", "h2")>>)

\* an installation that synced AppManifest, or a new one
InitToggle ==
  /\ \/ /\ dbManifest = Some(StoredManifest(AppManifest, 0))
        /\ dbLayers = [k \in {"roads"} |->
                         StoredLayer(AppManifest.layers[1], "roads-old", 0)]
     \/ /\ dbManifest = Absent
        /\ dbLayers = <<>>
  /\ dbBasemap = <<>>
  /\ dbSettings = Absent
  /\ baseUrl = "https://content.example"
  /\ srvManifest = UpdatedManifest
  /\ satelliteUrl = ""
  /\ PageLoaded

\* the layer panel toggles layers while the start-up sync of App runs
NextToggle ==
  \/ Mount
  \/ \E h \in Hooks : LoadAppData(h)
  \/ TimerFires("App")
  \/ SyncStep
  \/ ToggleClick
  \/ ToggleGet
  \/ TogglePut

SpecToggle == InitToggle /\ [][NextToggle]_vars

\* the page is closed and loaded again: the store keeps what was written,
\* the stores in memory, the components and every call in flight are gone
Reload ==
  /\ Mounted
  /\ now < MaxRuns
  /\ now' = now + 1
  /\ status' = InitialStatus
  /\ lastOp' = "create"
  /\ storeManifest' = Absent
  /\ downloadProgress' = Absent
  /\ showDownloadPrompt' = FALSE
  /\ mapLayers' = <<>>
  /\ hasOfflineBasemap' = FALSE
  /\ basemapBlob' = Absent
  /\ promptError' = Absent
  /\ hooks' = [h \in Hooks |-> NewHook]
  /\ calls' = EmptyBag
  /\ dl' = NoDownload
  /\ dlEvents' = <<>>
  /\ hist' = NoHist
  /\ toggle' = NoToggle
  /\ saving' = NoSave
  /\ UNCHANGED <<storeVars, dbSettings, envVars, callVars, satelliteUrl, online>>

\* the server has replaced the basemap since the user downloaded it: a new
\* basemap.id, or the same id with a new basemap.sha256
BasemapUpdates ==
  {ContentManifest("v2", BasemapConfig(b[1], b[2]), AppManifest.layers) :
     b \in {<<"bm2", Undefined>>, <<"bm1", "h2">>}}

\* an installation that synced AppManifest and downloaded its basemap
InitUpdate ==
  /\ dbManifest = Some(StoredManifest(AppManifest, 0))
  /\ dbLayers = [k \in {"roads"} |-> StoredLayer(AppManifest.layers[1], "roads", 0)]
  /\ dbBasemap = [k \in {"bm1"} |-> StoredBasemap("bm1", Undefined, <<0>>, 0)]
  /\ dbSettings = saveSettings(Absent, "bm1")
  /\ baseUrl = "https://content.example"
  /\ srvManifest \in BasemapUpdates
  /\ satelliteUrl = ""
  /\ PageLoaded

\* sessions of the application: initialize() and the start-up syncs of the
\* components, and page reloads in between
NextUpdate ==
  \/ Mount
  \/ \E h \in Hooks : LoadAppData(h)
  \/ \E h \in Hooks : LoadBasemapBlob(h)
  \/ \E h \in Hooks : TimerFires(h)
  \/ SyncStep
  \/ Reload

SpecUpdate == InitUpdate /\ [][NextUpdate]_vars

(***************************************************************************)
(* Properties.                                                             *)
(***************************************************************************)
\* the layers of the manifest the current call fetched
ManifestLayers == IF manifest = Absent THEN <<>> ELSE manifest[1].layers

\* the reference diff, stated on the object stores themselves
RefLayerChanged(layer) ==
  \/ ~ \E k \in DOMAIN dbLayers : dbLayers[k].id = layer.id
  \/ /\ layer.sha256 # Undefined
     /\ \E k \in DOMAIN dbLayers :
          dbLayers[k].id = layer.id /\ dbLayers[k].sha256 # layer.sha256

RefBasemapChanged(bm) ==
  \/ bm.id \notin DOMAIN dbBasemap
  \/ bm.sha256 # Undefined /\ dbBasemap[bm.id].sha256 # bm.sha256

RefDiff(m) ==
  IF dbManifest = Absent
  THEN [needsSync |-> TRUE, changedLayers |-> m.layers, basemapChanged |-> TRUE]
  ELSE LET changed == SelectSeq(m.layers, RefLayerChanged)
       IN  [needsSync |-> dbManifest[1].version # m.version \/ changed # <<>>,
            changedLayers |-> changed,
            basemapChanged |-> RefBasemapChanged(m.basemap)]

\* C1: for every manifest and every content of the store, checkSyncNeeded
\* returns the reference diff: everything changed when no manifest is stored;
\* otherwise changedLayers is, in manifest order, the layers that are not
\* stored or declare a hash other than the stored one, needsSync is a version
\* difference or a changed layer, basemapChanged is a basemap not stored under
\* the manifest's id or a declared hash other than the stored one.
C1_DiffAgreesWithReference ==
  pc = "diffDone" => check = RefDiff(manifest[1])

C1_Witness ==
  /\ pc = "diffDone"
  /\ dbManifest # Absent
  /\ dbManifest[1].version = manifest[1].version
  /\ Len(manifest[1].layers) = 2
  /\ Len(check.changedLayers) = 1
  /\ check.changedLayers[1].id \in DOMAIN dbLayers
  /\ check.needsSync
  /\ ~check.basemapChanged
  /\ manifest[1].basemap.sha256 # Undefined

\* a manifest layer whose declared hash is the hash of the record that was
\* stored under its id when the current call started
HashStable(layer) ==
  /\ layer.sha256 # Undefined
  /\ layer.id \in DOMAIN startLayers
  /\ startLayers[layer.id].sha256 = layer.sha256

\* C2 as stated: a layer stored with the hash the manifest declares is left
\* out of changedLayers whatever else is or is not in the store.
C2_HashStableAlways ==
  \A n \in DOMAIN ManifestLayers :
    (check # NoCheck /\ HashStable(ManifestLayers[n]))
      => ManifestLayers[n].id \notin Ids(check.changedLayers)

\* C2, amended: when a manifest is stored, a layer stored with the hash the
\* manifest declares is left out of changedLayers, whatever the versions are.
C2_HashStableWhenManifestStored ==
  \A n \in DOMAIN ManifestLayers :
    (check # NoCheck /\ startManifest # Absent /\ HashStable(ManifestLayers[n]))
      => ManifestLayers[n].id \notin Ids(check.changedLayers)

C2_Witness ==
  /\ check # NoCheck
  /\ startManifest # Absent
  /\ startManifest[1].version # manifest[1].version
  /\ \E n \in DOMAIN ManifestLayers : HashStable(ManifestLayers[n])
  /\ Len(check.changedLayers) = 1

\* the manifest the current call fetched lists the layer id without a hash
HashlessListed(id) ==
  \E n \in DOMAIN ManifestLayers :
    ManifestLayers[n].id = id /\ ManifestLayers[n].sha256 = Undefined

\* C3 as stated: once a layer is in the store, no later call fetches or
\* rewrites it while the manifest lists it without a hash, also after calls
\* that were interrupted or failed in part.
C3_HashlessNeverResynced ==
  \A id \in FetchedNow \cup SavedNow :
    ~(id \in DOMAIN startLayers /\ HashlessListed(id))

\* C3, amended: once a layer is in the store and a manifest is stored, no
\* later call fetches or rewrites the layer while the manifest lists it
\* without a hash.
C3_HashlessNeverResyncedOnceManifestStored ==
  \A id \in FetchedNow \cup SavedNow :
    ~(startManifest # Absent /\ id \in DOMAIN startLayers /\ HashlessListed(id))

C3_Witness ==
  /\ pc = "done"
  /\ result.success
  /\ startManifest # Absent
  /\ \E id \in DOMAIN startLayers : HashlessListed(id) /\ id \notin FetchedNow
  /\ SavedNow # {}

\* the previous call fetched the manifest the server still serves and
\* returned success
SecondRun ==
  /\ prev.kind = "returned"
  /\ prev.success
  /\ prev.manifest = Some(srvManifest)

ProgressCalls == SelectSeq(log, LAMBDA e : e.op = "progress")

\* the layers handed to syncLayers for which saveLayer completed, in input order
SyncedLayers == SelectSeq(check.changedLayers, LAMBDA l : l.id \in SavedNow)

\* syncLayers was called and no callback threw
SyncLayersRan ==
  /\ pc \in {"saveManifest", "done"}
  /\ check.needsSync
  /\ At("callbackThrew") = {}

\* C5: whatever subset of the N layers fails to fetch, decode or store,
\* syncLayers returns (it ends only by returning unless the callback throws),
\* returns exactly the stored layers in input order, and has called the
\* progress callback N times, with completed = 1..N and total = N.
C5_PartialFailureIsolation ==
  SyncLayersRan =>
    LET n == Len(check.changedLayers)
    IN  /\ results = [k \in 1..Len(SyncedLayers) |->
                        StoredLayer(SyncedLayers[k], SyncedLayers[k].url, now)]
        /\ \A k \in 1..n :
             (check.changedLayers[k].id \in SavedNow)
               # (\E f \in At("layerFailed") : log[f].id = check.changedLayers[k].id)
        /\ Len(ProgressCalls) = n
        /\ \A k \in 1..n : ProgressCalls[k].a = k /\ ProgressCalls[k].b = n

C5_Witness ==
  /\ pc = "saveManifest"
  /\ Len(check.changedLayers) = 2
  /\ Len(results) = 1
  /\ results[1].id = check.changedLayers[2].id
  /\ Len(ProgressCalls) = 2

\* the manifest request of the current call failed
ManifestFetchFailed == At("fetchManifest") # {} /\ manifest = Absent

\* C6: when the manifest fetch fails and the store can be read: with a stored
\* manifest the call returns success with layersSynced = 0 and writes nothing;
\* with no stored manifest it returns success = false and a non-empty error.
C6_ManifestUnavailable ==
  (pc = "done" /\ ManifestFetchFailed /\ At("storeThrew") = {}) =>
    IF startManifest # Absent
    THEN /\ result = Success(0)
         /\ <<dbManifest, dbLayers>> = <<startManifest, startLayers>>
         /\ At("saveLayer") \cup At("saveManifest") = {}
    ELSE /\ result.settled = "fulfilled"
         /\ ~result.success
         /\ result.error \notin {Undefined, ""}

C6_Witness ==
  /\ pc = "done"
  /\ ManifestFetchFailed
  /\ startManifest # Absent
  /\ DOMAIN startLayers # {}
  /\ result = Success(0)

\* C7: with an empty content base URL a call issues no network request and
\* writes nothing to the store, and (unless the progress callback throws) it
\* returns success with layersSynced = 0.
C7_NoServerMode ==
  baseUrl = "" =>
    /\ At("fetchManifest") \cup At("fetchLayer") = {}
    /\ At("saveLayer") \cup At("saveManifest") = {}
    /\ <<dbManifest, dbLayers>> = <<Absent, <<>> >>
    /\ pc \in {"idle", "done"}
    /\ (pc = "done" /\ At("callbackThrew") = {}) => result = Success(0)

C7_Witness ==
  /\ baseUrl = ""
  /\ pc = "done"
  /\ result = Success(0)
  /\ prev.kind = "returned"

\* C8: no exception escapes performFullSync: whatever fails (manifest fetch,
\* store reads and writes, layer fetches, the progress callback), the call
\* resolves to a value with success = true, or with success = false and an
\* error string.
C8_AlwaysResolves ==
  /\ pc = "done" =>
       /\ result.settled = "fulfilled"
       /\ result.success \/ result.error # Undefined
       /\ result.success => result.error = Undefined
  /\ (At("storeThrew") # {} /\ pc # "done") => At("layerFailed") # {}
  /\ At("callbackThrew") # {} => pc = "done"

C8_Witness ==
  /\ pc = "done"
  /\ At("callbackThrew") # {}
  /\ At("storeThrew") # {}
  /\ At("layerFailed") # {}
  /\ result = Failure("Unknown error")

\* a sync attempt for the layer id has completed before position s of the history
AttemptedBefore(id, s) ==
  \E f \in At("fetchLayer") :
    /\ log[f].id = id
    /\ \E c \in At("saveLayer") \cup At("layerFailed") :
         log[c].id = id /\ f < c /\ c < s

\* C9: a call writes the manifest only after a sync attempt has completed for
\* every layer it selected as changed, and every layer a stored manifest
\* lists has had a sync attempt.
C9_ManifestCommittedLast ==
  /\ dbManifest # startManifest => At("saveManifest") # {}
  /\ \A s \in At("saveManifest") :
       \A n \in DOMAIN check.changedLayers :
         AttemptedBefore(check.changedLayers[n].id, s)
  /\ dbManifest # Absent =>
       \A n \in DOMAIN dbManifest[1].rawJson.layers :
         dbManifest[1].rawJson.layers[n].id \in attempted

C9_Witness ==
  /\ pc = "done"
  /\ At("saveManifest") # {}
  /\ dbManifest # startManifest
  /\ Len(check.changedLayers) = 2
  /\ At("layerFailed") # {}
  /\ At("saveLayer") # {}

\* the previous call was interrupted after it had stored a layer, and the
\* current call ran to the end against the same manifest
AfterInterrupted ==
  /\ pc = "done"
  /\ prev.kind = "interrupted"
  /\ prev.stored # {}
  /\ prev.manifest # Absent
  /\ manifest = prev.manifest
  /\ result.success

InFlight ==
  pc \in {"fetchManifest", "getStored", "check", "fetchLayer", "saveLayer", "saveManifest"}

\* C10 as stated: a call interrupted before the manifest was saved leaves the
\* old manifest in the store, and the next call against the same manifest
\* attempts again every layer the interrupted call had selected.
C10_RetriedInFull ==
  /\ InFlight => dbManifest = startManifest
  /\ AfterInterrupted => prev.selected \subseteq FetchedNow

\* C10, amended: a call interrupted before the manifest was saved leaves the
\* old manifest in the store, and the next call against the same manifest
\* attempts again every layer the interrupted call had selected and not
\* stored; the layers it had stored are attempted again only when no manifest
\* is stored.
C10_RemainderRetried ==
  /\ InFlight => dbManifest = startManifest
  /\ AfterInterrupted =>
       /\ (prev.selected \ prev.stored) \subseteq FetchedNow
       /\ startManifest = Absent => prev.selected \subseteq FetchedNow
       /\ startManifest # Absent => FetchedNow \cap prev.stored = {}

C10_Witness ==
  /\ AfterInterrupted
  /\ startManifest # Absent
  /\ prev.selected \ prev.stored # {}
  /\ FetchedNow = prev.selected \ prev.stored

(***************************************************************************)
(* The status store.                                                       *)
(***************************************************************************)
\* C11: the store starts offline with lastSync = null; startSync gives
\* syncing with lastSync null, syncComplete(true) gives synced with a
\* lastSync, syncComplete(false) gives stale, syncError gives error with
\* lastSync null; and in every state, syncing or error implies lastSync =
\* null and synced implies lastSync is not null
C11_StatusTransitions ==
  /\ lastOp = "create" => status.state = "offline" /\ status.lastSync = Absent
  /\ lastOp = "startSync" => status.state = "syncing" /\ status.lastSync = Absent
  /\ lastOp = "syncComplete(true)" =>
       status.state = "synced" /\ status.lastSync # Absent
  /\ lastOp = "syncComplete(false)" => status.state = "stale"
  /\ lastOp = "syncError" => status.state = "error" /\ status.lastSync = Absent
  /\ status.state \in {"syncing", "error"} => status.lastSync = Absent
  /\ status.state = "synced" => status.lastSync # Absent

\* an error reported after a completed sync, progress reports in between
C11_Witness ==
  /\ lastOp = "syncError"
  /\ status.state = "error"
  /\ now > 0

\* C12 as stated: setOffline changes only the state, so lastSync, message
\* and progress keep the values they had
C12_SetOfflineOnlyState ==
  [][StoreSetOffline =>
       /\ status'.state = "offline"
       /\ status'.lastSync = status.lastSync
       /\ status'.message = status.message
       /\ status'.progress = status.progress]_vars

\* C12: setOffline sets the state to offline and the message to 'Working
\* offline'; lastSync and progress keep the values they had
C12_SetOfflineKeepsLastSyncAndProgress ==
  [][StoreSetOffline =>
       /\ status'.state = "offline"
       /\ status'.message = Some(Text("Working offline"))
       /\ status'.lastSync = status.lastSync
       /\ status'.progress = status.progress]_vars

\* setOffline was applied to a status with a lastSync and a progress
C12_Witness ==
  /\ lastOp = "setOffline"
  /\ status.state = "offline"
  /\ status.lastSync # Absent
  /\ status.progress # Absent

\* C14: whenever the state is syncing, it eventually is another state
C14_NeverSpins == (status.state = "syncing") ~> (status.state # "syncing")

\* a call whose status is syncing while another call is still in flight
C14_Witness ==
  /\ status.state = "syncing"
  /\ BagCardinality(calls) >= 2
  /\ ~online

(***************************************************************************)
(* The hook useSync.                                                       *)
(***************************************************************************)
\* call c could not fetch the manifest and found one in the store
ServedFromCache(c) == ~noServer(baseUrl) /\ c.manifest = Absent /\ c.result.success

\* C13: when the manifest fetch of a sync() fails and a manifest is cached,
\* the status that sync() sets on completion is stale or offline, not synced
C13_TransientFailureStaleOrOffline ==
  [][\A c \in BagToSet(calls) :
       CallResolved(c) /\ ServedFromCache(c) =>
         status'.state \in {"stale", "offline"}]_vars

\* C15: however often initialize() is called, the store is loaded and its
\* content published at most once, and a later call does not overwrite the
\* status a sync has set in between
C15_InitializeOnce ==
  /\ [](hist.loads <= 1 /\ hist.publishes <= 1)
  /\ [][\A h \in Hooks :
          /\ LoadAppData(h) \/ LoadBasemapBlob(h)
          /\ \E g \in Hooks \ {h} : hooks[g].init \in {"done", "failed"}
          /\ lastOp \in SyncOps
          => status' = status]_vars

\* C16: when a store read of initialize() fails, the call resolves (it does
\* not reject) and the status state it leaves is offline
C16_InitializeDegradesToOffline ==
  [][\A h \in Hooks :
       /\ hooks[h].init \in {"loading", "basemap"}
       /\ hooks'[h].init \notin {"loading", "basemap", "done"}
       => hooks'[h].init = "failed" /\ status'.state = "offline"]_vars

\* the read of the basemap blob failed after a sync had reported its result
C16_Witness ==
  /\ \E h \in Hooks : hooks[h].init = "failed" /\ hooks[h].hasBasemap
  /\ lastOp = "setOffline"
  /\ status.state = "offline"
  /\ status.lastSync # Absent

(***************************************************************************)
(* downloadBasemap and downloadOfflineBasemap.                             *)
(***************************************************************************)
\* the basemap and settings stores are as they were when downloadBasemap began
StoresUntouched ==
  /\ dbBasemap = hist.basemapAtStart
  /\ dbSettings = hist.settingsAtStart

\* C17: the basemap record and the settings are written only after the
\* response stream was read to its end, the record holds every chunk read,
\* and a call that throws at the request or at a chunk read leaves the
\* basemap store and the settings as they were
C17_NoPartialBlob ==
  /\ dl.pc \in {"fetch", "read", "saveBasemap"} => StoresUntouched
  /\ dl.pc \in {"saveSettings", "putSettings", "getStored"} =>
       /\ dlEvents # <<>>
       /\ \E k \in 1..Len(dlEvents) : dlEvents[k].phase = "storing"
       /\ dl.config[1].id \in DOMAIN dbBasemap
       /\ dbBasemap[dl.config[1].id].blob = dl.chunks
       /\ dbBasemap[dl.config[1].id].sizeBytes = dl.loaded
  /\ dl.pc \in {"saveSettings", "putSettings"} => dbSettings = hist.settingsAtStart
  /\ (dl.pc = "idle" /\ dl.last = "downloadThrew" /\ dl.at \in {"fetch", "read"})
       => StoresUntouched

\* a chunk read failed after bytes had arrived, and nothing was stored
C17_Witness ==
  /\ dl.pc = "idle"
  /\ dl.last = "downloadThrew"
  /\ dl.at = "read"
  /\ Len(dlEvents) >= 2
  /\ dlEvents[Len(dlEvents)].loaded > 0
  /\ StoresUntouched

\* the number of events of a phase reported so far
EventsOfPhase(phase) == Cardinality({k \in 1..Len(dlEvents) : dlEvents[k].phase = phase})

\* C18: the progress events start with a fetching event with loaded 0, then
\* one fetching event per chunk, one storing event when the stream is done,
\* one complete event after both writes; loaded never decreases, and the
\* last fetching event has loaded = total when the content length equals
\* the bytes delivered
C18_ProgressOrder ==
  LET n == Len(dlEvents)
      streamDone == dl.pc \in {"saveBasemap", "saveSettings", "putSettings", "getStored"}
  IN  /\ n >= 1 => dlEvents[1] = FetchingEvent(0, 0)
      /\ \A k \in 1..(n - 1) : dlEvents[k].loaded <= dlEvents[k + 1].loaded
      /\ \A k \in 1..n :
           /\ dlEvents[k].phase = "fetching" =>
                \A j \in 1..k : dlEvents[j].phase = "fetching"
           /\ dlEvents[k].phase = "storing" =>
                k > 1 /\ dlEvents[k - 1].phase = "fetching"
           /\ dlEvents[k].phase = "complete" =>
                k = n /\ k > 1 /\ dlEvents[k - 1].phase = "storing"
      /\ EventsOfPhase("storing") <= 1
      /\ EventsOfPhase("complete") <= 1
      /\ dl.pc \in {"fetch", "read"} =>
           /\ EventsOfPhase("fetching") = 1 + dl.nchunks
           /\ EventsOfPhase("storing") = 0
      /\ streamDone =>
           /\ EventsOfPhase("fetching") = 1 + dl.nchunks
           /\ EventsOfPhase("storing") = 1
           /\ dl.total = dl.loaded =>
                LET last == dlEvents[EventsOfPhase("fetching")]
                IN  last.loaded = dl.total
      /\ EventsOfPhase("complete") = 1 =>
           /\ dbSettings # Absent
           /\ dbSettings[1].basemapDownloaded
           /\ dbSettings[1].lastBasemapId \in DOMAIN dbBasemap
      /\ dl.pc \in {"saveBasemap", "saveSettings", "putSettings"} =>
           EventsOfPhase("complete") = 0
      /\ dl.pc = "getStored" => EventsOfPhase("complete") = 1

\* a download of two chunks whose content length was the bytes delivered
\* has reported all its events
C18_Witness ==
  /\ dl.pc = "getStored"
  /\ dl.nchunks = 2
  /\ dl.total = dl.loaded
  /\ dl.loaded > 0
  /\ Len(dlEvents) = 5
  /\ dlEvents[5].phase = "complete"

\* C19: after downloadBasemap threw, the prompt shows the error and offers
\* the download again: the progress is cleared
C19_RetryAfterFailure ==
  (dl.pc = "idle" /\ dl.last = "downloadThrew") =>
    /\ promptError # Absent
    /\ downloadProgress = Absent

\* C20: downloadOfflineBasemap gives up with 'No basemap configuration
\* available' only when the sync() it awaited obtained no manifest, not when
\* that sync fetched one and a manifest is in the store
C20_ConfigThroughSync ==
  (dl.pc = "idle" /\ dl.last = "noConfig") =>
    ~(dl.synced # Absent /\ dbManifest # Absent)

(***************************************************************************)
(* The result of performFullSync and the layer fetches in flight.          *)
(***************************************************************************)
\* C28: the layersSynced of a successful call is the number of layers the
\* call fetched, decoded and stored
C28_LayersSyncedCountsStored ==
  (pc = "done" /\ result.settled = "fulfilled" /\ result.success) =>
    result.layersSynced = Len(results)

\* the sync() calls whose performFullSync awaits fetchAndParseKML
FetchingLayer == {c \in BagToSet(calls) : c.pc = "fetchLayer"}

\* C25: at every moment at most one layer fetch/decode is in flight
C25_OneLayerFetchInFlight ==
  /\ Cardinality(FetchingLayer) <= 1
  /\ \A c \in FetchingLayer : CopiesIn(c, calls) <= 1

(***************************************************************************)
(* The layers performFullSync writes.                                      *)
(***************************************************************************)
\* the step writes the record of the layer syncLayer has just fetched
WritesSelected(id) ==
  /\ pc = "saveLayer"
  /\ geojson # Absent
  /\ id = check.changedLayers[i].id
  /\ id \in Ids(check.changedLayers)

\* C22: no step of performFullSync deletes a stored layer, and a step writes
\* a layer record only for the changed layer it has just fetched and
\* decoded; so when the call is over, the layers that were not selected (the
\* uploaded one, those that left the manifest) and the selected ones that
\* failed have the record they had when the call started
C22_TouchesOnlySelected ==
  /\ [][/\ DOMAIN dbLayers \subseteq DOMAIN dbLayers'
        /\ \A id \in DOMAIN dbLayers' :
             (id \notin DOMAIN dbLayers \/ dbLayers'[id] # dbLayers[id])
               => WritesSelected(id)]_vars
  /\ [](pc = "done" =>
          \A id \in DOMAIN startLayers :
            (id \notin Ids(check.changedLayers) \/ id \notin SavedNow) =>
              /\ id \in DOMAIN dbLayers
              /\ dbLayers[id] = startLayers[id])

\* a call that rewrote zones, failed to fetch roads, and had not selected
\* the uploaded layer
C22_Witness ==
  /\ pc = "done"
  /\ result.success
  /\ SavedNow = {"zones"}
  /\ dbLayers["zones"] # startLayers["zones"]
  /\ \E n \in At("layerFailed") : log[n].id = "roads"
  /\ dbLayers["roads"] = startLayers["roads"]
  /\ UserLayerId \in DOMAIN dbLayers
  /\ dbLayers[UserLayerId] = startLayers[UserLayerId]

(***************************************************************************)
(* toggleLayerVisibility.                                                  *)
(***************************************************************************)
\* the id of the toggleLayerVisibility call that takes the step
ToggledId == IF toggle.pc = "idle" THEN toggle'.id ELSE toggle.id
ToggledTo == IF toggle.pc = "idle" THEN toggle'.visible ELSE toggle.visible

\* C23: a step of toggleLayerVisibility with an id that is in neither the
\* published layers nor the store changes neither and does not reject; with
\* a known id it changes nothing but the visible flag of that layer, in the
\* published layers and in the store
C23_ToggleFrame ==
  [][toggle' # toggle =>
       IF ToggledId \notin DOMAIN mapLayers \cup DOMAIN dbLayers
       THEN /\ mapLayers' = mapLayers
            /\ dbLayers' = dbLayers
            /\ toggle'.last # "rejected"
       ELSE /\ mapLayers' = setLayerVisibility(mapLayers, ToggledId, ToggledTo)
            /\ \/ dbLayers' = dbLayers
               \/ dbLayers' = [dbLayers EXCEPT ![ToggledId].visible = ToggledTo]]_vars

C24_BothSettingsWritesKept ==
  (dl.pc = "getStored" /\ saving.pc = "idle" /\ saving.last = "resolved") =>
    /\ dbSettings # Absent
    /\ dbSettings[1].basemapDownloaded
    /\ dbSettings[1].lastBasemapId = dl.config[1].id
    /\ dbSettings[1].followMode = saving.patch.followMode
    /\ dbSettings[1].ringsEnabled = saving.patch.ringsEnabled

\* C30: when the stored settings say basemapDownloaded, a basemap record is
\* stored under their lastBasemapId, and its sizeBytes is the length of its
\* blob
C30_DownloadedBasemapStored ==
  (dbSettings # Absent /\ dbSettings[1].basemapDownloaded) =>
    /\ dbSettings[1].lastBasemapId \in DOMAIN dbBasemap
    /\ LET rec == dbBasemap[dbSettings[1].lastBasemapId]
       IN  /\ rec.id = dbSettings[1].lastBasemapId
           /\ rec.sizeBytes = Len(rec.blob)

\* a download of this session stored two bytes and recorded the basemap in
\* settings that the settings store had written before
C30_Witness ==
  /\ hist.settingsAtStart = Absent
  /\ dl.last = "resolved"
  /\ saving.last = "resolved"
  /\ dbSettings # Absent
  /\ dbSettings[1].basemapDownloaded
  /\ dbSettings[1].lastBasemapId \in DOMAIN dbBasemap
  /\ dbBasemap[dbSettings[1].lastBasemapId].sizeBytes = 2

(***************************************************************************)
(* A download whose prompt is gone.                                        *)
(***************************************************************************)
\* C27: once the download prompt has unmounted during a download, that
\* download writes neither the basemap store nor the settings
C27_AbandonedDownloadWritesNothing ==
  [][~PromptMounted => dbBasemap' = dbBasemap /\ dbSettings' = dbSettings]_vars

(***************************************************************************)
(* Malformed manifests.                                                    *)
(***************************************************************************)
\* the manifest request of the call was answered with a malformed body
MalformedNow ==
  \E n \in At("fetchManifest") : log[n].id \in MalformedResponses

\* C26: a malformed manifest is treated as no manifest: fetchManifest returns
\* null, the call ends as after a network failure, and nothing is stored
C26_MalformedIsUnavailable ==
  MalformedNow =>
    /\ manifest = Absent
    /\ dbManifest = startManifest
    /\ dbLayers = startLayers
    /\ (pc = "done" /\ ~Faulted) => result = manifestUnavailable(startManifest)

(***************************************************************************)
(* Basemap updates.                                                        *)
(***************************************************************************)
\* the stored manifest names a basemap other than the one the user has
\* downloaded: another id, or another sha256
BasemapUpdateStored ==
  /\ dbManifest # Absent
  /\ hasBasemapOf(dbSettings)
  /\ LET bm == dbManifest[1].rawJson.basemap
         own == getStoredBasemap(dbBasemap, lastBasemapIdOf(dbSettings))
     IN  own # Absent /\ (bm.id # own[1].id \/ bm.sha256 # own[1].sha256)

\* every initialize() and every start-up sync of the session is over
SessionSettled ==
  /\ \A h \in Hooks : hooks[h].init = "done" /\ hooks[h].timer = "fired"
  /\ calls = EmptyBag

\* C21: a basemap update is offered: in a session that starts after a sync
\* has stored a manifest whose basemap differs from the downloaded one, the
\* download prompt is visible once start-up and the syncs are over
C21_BasemapUpdateOffered ==
  (now > 1 /\ BasemapUpdateStored /\ SessionSettled) => showDownloadPrompt

====
